---- MODULE Spec2Model ----
(***************************************************************************)
(* generate_client.py: the generator (naming functions, get_python_type,   *)
(* generate_client_code, generate_client and main) and the WebSocket       *)
(* client it emits (the class template of generate_client_code,            *)
(* src/generate_client.py lines 216-415).                                  *)
(*                                                                         *)
(* src/ModernAsyncAPILibrary.py: the Robot Framework adapter over that     *)
(* client (its message buffer and wait keyword).                           *)
(*                                                                         *)
(* Eleven specifications share one list of variables:                      *)
(*   Spec          connection lifecycle: the caller's connect() and        *)
(*                 disconnect() interleaved, statement by statement, with  *)
(*                 the background thread of every transport (run_forever   *)
(*                 delivering _on_open and _on_close, and the reconnect    *)
(*                 that _on_close performs on that thread);                *)
(*   DispatchSpec  inbound dispatch on a connected client: _on_message,    *)
(*                 handler by handler, interleaved with the caller's       *)
(*                 register_message_handler;                               *)
(*   SendSpec      the lifecycle with the caller's send_message and        *)
(*                 send_raw_message, check and write as separate steps;    *)
(*   NameSpec      to_pascal_case and to_snake_case applied to an          *)
(*                 identifier;                                             *)
(*   GenSpec       one run of generate_client_code over a schema table and *)
(*                 a channel table, loop iteration by loop iteration, and  *)
(*                 a call of an emitted send_ method;                      *)
(*   RegenSpec     two runs of generate_client_code over the same tables,  *)
(*                 each in its own interpreter process;                    *)
(*   ErrorSpec     _on_error on a connected client, handler by handler,    *)
(*                 interleaved with the caller's register_error_handler;   *)
(*   CliSpec       one run of the command line: main and generate_client,  *)
(*                 statement group by statement group, to the exit code;   *)
(*   RoundTripSpec a run of generate_client_code, calls of emitted on_     *)
(*                 methods, a call of an emitted send_ method and the      *)
(*                 dispatch of the frame it wrote;                         *)
(*   AdapterSpec   the adapter after initialize_gpio_client: frames        *)
(*                 dispatched by its client, and the wait keyword;         *)
(*   WaitSpec      wait_for_websocket_message on a buffer holding messages.*)
(***************************************************************************)
EXTENDS Integers, Sequences, FiniteSets, TLC

\* Number of transports (WebSocketApp objects) one run may create.
MaxTransports == 3

\* Longest handler list the caller builds for one message name.
MaxHandlers == 2

VARIABLES
    \* ---- fields of the emitted client (__init__, lines 235-241)
    ws,                 \* self.ws: 0 is None, otherwise the transport's id
    connected,          \* self.connected
    should_reconnect,   \* self._should_reconnect
    message_handlers,   \* self.message_handlers: name -> list of handlers
    \* ---- the caller's thread
    callerPc,           \* the statement of connect()/disconnect() it is at
    connectResult,      \* what the caller's last connect() returned
    \* ---- one background thread per transport
    pc,                 \* transport id -> where the transport / its thread is
    parent,             \* transport id -> who created it (0 the caller, t a thread)
    \* ---- observation of the run (history)
    explicit_disconnect,\* a disconnect() returned and the caller has not called connect since
    flagAtClose,        \* transport id -> what _on_close read at line 312
    attempts,           \* transport id -> connect() calls made by its _on_close
    sleeps,             \* transport id -> reconnect delays its _on_close completed
    opened,             \* transport id -> its _on_open has run
    raised,             \* transport id -> how the connect() its _on_close made raised ("none" if not)
    \* ---- the dispatch of the frame being handled by _on_message
    dpc,                \* "loop" (between frames) or "iter" (inside the for loop)
    lastFrame,          \* text of the frame last handed to _on_message
    data,               \* json.loads(message) of that frame
    message_type,       \* data.get("type", "unknown") of that frame
    idx,                \* handlers of the list already taken by the for loop
    invoked,            \* the handler calls made for that frame, in order
    escaped,            \* exception that left _on_message for that frame
    atStart,            \* the handler list of that frame's type when line 332 found it
    \* ---- the caller's send_message / send_raw_message call
    sendKind,           \* "message", "raw", or "none" when no send is in progress
    sendArg,            \* the argument of the call in progress
    sendResult,         \* what the last completed send returned
    wire,               \* what that call handed to the transport (ws.send)
    sendRaised,         \* exception that left that call
    \* ---- the generator's naming functions applied to one identifier
    ident,              \* the text handed to the conversions, as a sequence of characters
    pascal,             \* to_pascal_case(ident), once computed
    snake,              \* to_snake_case(ident), once computed
    converted,          \* which of the conversions have been computed
    \* ---- one run of generate_client_code, and a call on the client it emits
    schemas,            \* the schema table, in declaration order
    channels,           \* the channel table: per channel, its message names in order
    gpc,                \* the loop generate_client_code is in
    gi,                 \* iterations of that loop already made
    emitted,            \* the definitions written to the client source, in order
    called,             \* the last call of an emitted send_ method and what it did
    hash_seed,          \* the string-hash seed of the interpreter running the generator
    previous,           \* the seed and the output of an earlier run on the same tables
    registered,         \* the calls of emitted on_ methods: whose, and the name registered under
    delivered,          \* the dispatch of the sent frame on the emitted client, once made
    \* ---- transport errors: self.error_handlers and the _on_error in progress
    error_handlers,     \* self.error_handlers: list of handlers
    epc,                \* "loop" (no _on_error running) or "iter" (inside its for loop)
    lastError,          \* the error last handed to _on_error
    eidx,               \* handlers of the list already taken by its for loop
    einvoked,           \* the handler calls made for that error, in order
    eescaped,           \* exception that left _on_error for that error
    eAtStart,           \* self.error_handlers when that _on_error began
    \* ---- one run of the generator's command line (main, generate_client)
    cli,                \* the run: its inputs, position, files written, exit code
    \* ---- the Robot Framework adapter (ModernAsyncAPILibrary) and one wait keyword
    received_messages,  \* self.received_messages: the buffer, oldest first
    wpc,                \* where wait_for_websocket_message is: "idle", "scan", "sleep"
    waitType,           \* the message_type it was called with
    waitResult,         \* what the last wait returned or raised
    atCall              \* the buffer when that wait was called

clientVars == <<ws, connected, should_reconnect>>
lifeVars == <<callerPc, connectResult, pc, parent, explicit_disconnect,
              flagAtClose, attempts, sleeps, raised, opened>>
dispatchVars == <<dpc, lastFrame, data, message_type, idx, invoked, escaped,
                  atStart>>
sendVars == <<sendKind, sendArg, sendResult, wire, sendRaised>>
nameVars == <<ident, pascal, snake, converted>>
genVars == <<schemas, channels, gpc, gi, emitted, called, hash_seed, previous,
            registered, delivered>>
errorVars == <<error_handlers, epc, lastError, eidx, einvoked, eescaped,
               eAtStart>>
cliVars == <<cli>>
adapterVars == <<received_messages, wpc, waitType, waitResult, atCall>>
restVars == <<sendVars, nameVars, genVars, errorVars, cliVars, adapterVars>>
vars == <<clientVars, message_handlers, lifeVars, dispatchVars, restVars>>

Transports == 1..MaxTransports

NoData == [kind |-> "none", has_type |-> FALSE,
           type |-> [kind |-> "none", v |-> ""], payload |-> [status |-> ""]]

NoType == [kind |-> "none", v |-> ""]

\* self.message_handlers = {} (line 237)
EmptyRegistry == [n \in {} |-> <<>>]

(***************************************************************************)
(* Connection lifecycle                                                    *)
(***************************************************************************)

\* A transport that is connected: frames can flow.
IsOpen(t) == pc[t] = "open"

Unused == {t \in Transports : pc[t] = "unused"}

\* The id the next WebSocketApp(...) gets.
NewId == CHOOSE t \in Unused : \A u \in Unused : t <= u

\* What running lines 257-275 of connect() can do: build the transport and
\* start its thread, raise before self.ws is assigned, or raise in
\* Thread.start() after it.
CreateOutcomes == {"ok", "raise_create", "raise_start"}

\* ws.close() of the WebSocketApp (disconnect, line 289): an open transport
\* is torn down and its loop will deliver on_close; one still connecting has
\* keep_running cleared; anything else is left as it is.
CloseTransport(p, t) ==
    IF p[t] = "open" THEN [p EXCEPT ![t] = "closing"]
    ELSE IF p[t] = "starting" THEN [p EXCEPT ![t] = "aborted"]
    ELSE p

\* No send call has been made.
NoArg == [kind |-> "none", text |-> ""]

NoWire == [t |-> 0, text |-> ""]

SendIdle ==
    /\ sendKind = "none"
    /\ sendArg = NoArg
    /\ sendResult = "none"
    /\ wire = NoWire
    /\ sendRaised = "none"

\* No identifier has been converted.
NameIdle ==
    /\ ident = <<>>
    /\ pascal = <<>>
    /\ snake = <<>>
    /\ converted = {}

NoCall == [method |-> <<>>, of |-> <<>>, type |-> <<>>, payload |-> "",
           sent |-> "none", returned |-> "none"]

\* The generator has not been run.
GenIdle ==
    /\ schemas = <<>>
    /\ channels = <<>>
    /\ gpc = "done"
    /\ gi = 0
    /\ emitted = <<>>
    /\ called = NoCall
    /\ hash_seed = "unset"
    /\ previous = <<>>
    /\ registered = <<>>
    /\ delivered = <<>>

\* self.error_handlers = [] (line 238), and no transport error yet.
ErrorIdle ==
    /\ error_handlers = <<>>
    /\ epc = "loop"
    /\ lastError = "none"
    /\ eidx = 0
    /\ einvoked = <<>>
    /\ eescaped = "none"
    /\ eAtStart = <<>>

\* The generator's command line has not been run.
NoRun == [argv |-> "none", spec_file |-> "none", stdout_encodes |-> TRUE,
          emission |-> "ok", disk_fails_at |-> 0, pc |-> "none",
          written |-> <<>>, exc |-> "none", exit |-> <<>>]

CliIdle == cli = NoRun

\* The state of everything outside the client's fields before it is used.
\* __init__ of the adapter (lines 36-41), and no wait keyword called yet.
NoResult == [kind |-> "none", message |-> NoData]

AdapterIdle ==
    /\ received_messages = <<>>
    /\ wpc = "idle"
    /\ waitType = ""
    /\ waitResult = NoResult
    /\ atCall = <<>>

RestInit ==
    SendIdle /\ NameIdle /\ GenIdle /\ ErrorIdle /\ CliIdle /\ AdapterIdle

\* __init__ (lines 235-241) and no thread yet.
ClientFresh ==
    /\ ws = 0
    /\ connected = FALSE
    /\ should_reconnect = FALSE
    /\ message_handlers = EmptyRegistry
    /\ callerPc = "idle"
    /\ connectResult = "none"
    /\ pc = [t \in Transports |-> "unused"]
    /\ parent = [t \in Transports |-> 0]
    /\ explicit_disconnect = FALSE
    /\ flagAtClose = [t \in Transports |-> "unread"]
    /\ attempts = [t \in Transports |-> 0]
    /\ sleeps = [t \in Transports |-> 0]
    /\ raised = [t \in Transports |-> "none"]
    /\ opened = [t \in Transports |-> FALSE]
    /\ dpc = "loop"
    /\ lastFrame = ""
    /\ data = NoData
    /\ message_type = NoType
    /\ idx = 0
    /\ invoked = <<>>
    /\ escaped = "none"
    /\ atStart = <<>>

\* A freshly constructed client; nothing else has run.
Init == ClientFresh /\ RestInit

\* connect(auto_reconnect), line 254.
CallerConnectBegin(auto_reconnect) ==
    /\ callerPc = "idle"
    /\ Unused # {}
    /\ should_reconnect' = auto_reconnect
    /\ callerPc' = "connect_create"
    /\ explicit_disconnect' = FALSE
    /\ UNCHANGED <<ws, connected, message_handlers, connectResult, pc, parent,
                   flagAtClose, attempts, sleeps, raised, opened,
                   dispatchVars, restVars>>

\* connect(), lines 257-275 (and 281-283 when something raises).
CallerConnectCreate(outcome) ==
    /\ callerPc = "connect_create"
    /\ Unused # {}
    /\ CASE outcome = "ok" ->
              /\ ws' = NewId
              /\ pc' = [pc EXCEPT ![NewId] = "starting"]
              /\ parent' = [parent EXCEPT ![NewId] = 0]
              /\ callerPc' = "connect_wait"
              /\ UNCHANGED connectResult
         [] outcome = "raise_start" ->
              /\ ws' = NewId
              /\ pc' = [pc EXCEPT ![NewId] = "created"]
              /\ parent' = [parent EXCEPT ![NewId] = 0]
              /\ callerPc' = "idle"
              /\ connectResult' = "false"
         [] OTHER ->
              /\ callerPc' = "idle"
              /\ connectResult' = "false"
              /\ UNCHANGED <<ws, pc, parent>>
    /\ UNCHANGED <<connected, should_reconnect, message_handlers,
                   explicit_disconnect, flagAtClose, attempts, sleeps, raised,
                   opened,
                   dispatchVars, restVars>>

\* connect(), lines 278-279: the bounded wait is over, return self.connected.
CallerConnectReturn ==
    /\ callerPc = "connect_wait"
    /\ connectResult' = IF connected THEN "true" ELSE "false"
    /\ callerPc' = "idle"
    /\ UNCHANGED <<clientVars, message_handlers, pc, parent,
                   explicit_disconnect, flagAtClose, attempts, sleeps, raised,
                   opened,
                   dispatchVars, restVars>>

\* disconnect(), line 287.
DisconnectClearFlag ==
    /\ callerPc = "idle"
    /\ should_reconnect' = FALSE
    /\ callerPc' = "disc_close"
    /\ UNCHANGED <<ws, connected, message_handlers, connectResult, pc, parent,
                   explicit_disconnect, flagAtClose, attempts, sleeps, raised,
                   opened,
                   dispatchVars, restVars>>

\* disconnect(), lines 288-289.
DisconnectClose ==
    /\ callerPc = "disc_close"
    /\ pc' = IF ws # 0 THEN CloseTransport(pc, ws) ELSE pc
    /\ callerPc' = "disc_flag"
    /\ UNCHANGED <<clientVars, message_handlers, connectResult, parent,
                   explicit_disconnect, flagAtClose, attempts, sleeps, raised,
                   opened,
                   dispatchVars, restVars>>

\* disconnect(), line 290, and the return.
DisconnectReturn ==
    /\ callerPc = "disc_flag"
    /\ connected' = FALSE
    /\ callerPc' = "idle"
    /\ explicit_disconnect' = TRUE
    /\ UNCHANGED <<ws, should_reconnect, message_handlers, connectResult, pc,
                   parent, flagAtClose, attempts, sleeps, raised, opened,
                   dispatchVars, restVars>>

\* _on_open (lines 301-304), delivered by the transport's thread once the
\* handshake is done; a transport closed while connecting may still deliver it.
OnOpen(t) ==
    /\ pc[t] \in {"starting", "aborted"}
    /\ connected' = TRUE
    /\ pc' = [pc EXCEPT ![t] = IF pc[t] = "starting" THEN "open" ELSE "closing"]
    /\ opened' = [opened EXCEPT ![t] = TRUE]
    /\ UNCHANGED <<ws, should_reconnect, message_handlers, callerPc,
                   connectResult, parent, explicit_disconnect, flagAtClose,
                   attempts, sleeps, raised, dispatchVars, restVars>>

\* The connection is lost: the handshake fails, or the server or the network
\* drops an open connection. run_forever leaves its loop and will call on_close.
Drop(t) ==
    /\ pc[t] \in {"starting", "aborted", "open"}
    /\ pc' = [pc EXCEPT ![t] = "closing"]
    /\ UNCHANGED <<clientVars, message_handlers, callerPc, connectResult,
                   parent, explicit_disconnect, flagAtClose, attempts, sleeps,
                   raised, opened,
                   dispatchVars, restVars>>

\* _on_close as it would be without the delay of line 314: the connect of line
\* 315 follows the test of line 312 at once.
OnCloseReadNoDelay(t) ==
    /\ pc[t] = "closing"
    /\ Unused # {}
    /\ connected' = FALSE
    /\ flagAtClose' = [flagAtClose EXCEPT ![t] = IF should_reconnect THEN "set" ELSE "clear"]
    /\ pc' = [pc EXCEPT ![t] = IF should_reconnect THEN "rc_create" ELSE "dead"]
    /\ attempts' = [attempts EXCEPT ![t] = IF should_reconnect THEN @ + 1 ELSE @]
    /\ UNCHANGED <<ws, should_reconnect, message_handlers, callerPc,
                   connectResult, parent, explicit_disconnect, sleeps,
                   raised, opened,
                   dispatchVars, restVars>>

\* _on_close, lines 308-314: clear the flag, read _should_reconnect, and start
\* the fixed delay when it is set.
OnCloseRead(t) ==
    /\ pc[t] = "closing"
    /\ connected' = FALSE
    /\ flagAtClose' = [flagAtClose EXCEPT ![t] = IF should_reconnect THEN "set" ELSE "clear"]
    /\ pc' = [pc EXCEPT ![t] = IF should_reconnect THEN "sleeping" ELSE "dead"]
    /\ UNCHANGED <<ws, should_reconnect, message_handlers, callerPc,
                   connectResult, parent, explicit_disconnect, attempts, sleeps,
                   raised, opened,
                   dispatchVars, restVars>>

\* _on_close, line 314 returning and line 315 calling connect(True), whose
\* first statement (line 254) sets the flag. The flag is not read again
\* between the two.
OnCloseWake(t) ==
    /\ pc[t] = "sleeping"
    /\ Unused # {}
    /\ sleeps' = [sleeps EXCEPT ![t] = @ + 1]
    /\ should_reconnect' = TRUE
    /\ attempts' = [attempts EXCEPT ![t] = @ + 1]
    /\ pc' = [pc EXCEPT ![t] = "rc_create"]
    /\ UNCHANGED <<ws, connected, message_handlers, callerPc, connectResult,
                   parent, explicit_disconnect, flagAtClose, raised,
                   opened,
                   dispatchVars, restVars>>

\* The reconnecting connect(), lines 257-275, on the closed transport's thread.
ReconnectCreate(t, outcome) ==
    /\ pc[t] = "rc_create"
    /\ Unused # {}
    /\ CASE outcome = "ok" ->
              /\ ws' = NewId
              /\ pc' = [pc EXCEPT ![NewId] = "starting", ![t] = "rc_wait"]
              /\ parent' = [parent EXCEPT ![NewId] = t]
              /\ UNCHANGED raised
         [] outcome = "raise_start" ->
              /\ ws' = NewId
              /\ pc' = [pc EXCEPT ![NewId] = "created", ![t] = "dead"]
              /\ parent' = [parent EXCEPT ![NewId] = t]
              /\ raised' = [raised EXCEPT ![t] = "raise_start"]
         [] OTHER ->
              /\ pc' = [pc EXCEPT ![t] = "dead"]
              /\ raised' = [raised EXCEPT ![t] = "raise_create"]
              /\ UNCHANGED <<ws, parent>>
    /\ UNCHANGED <<connected, should_reconnect, message_handlers, callerPc,
                   connectResult, explicit_disconnect, flagAtClose, attempts,
                   sleeps, opened,
                   dispatchVars, restVars>>

\* The reconnecting connect(), lines 278-279; its result is dropped by
\* _on_close, whose return ends the old transport's thread.
ReconnectReturn(t) ==
    /\ pc[t] = "rc_wait"
    /\ pc' = [pc EXCEPT ![t] = "dead"]
    /\ UNCHANGED <<clientVars, message_handlers, callerPc, connectResult,
                   parent, explicit_disconnect, flagAtClose, attempts, sleeps,
                   raised, opened,
                   dispatchVars, restVars>>

Next ==
    \/ \E b \in BOOLEAN : CallerConnectBegin(b)
    \/ \E o \in CreateOutcomes : CallerConnectCreate(o)
    \/ CallerConnectReturn
    \/ DisconnectClearFlag
    \/ DisconnectClose
    \/ DisconnectReturn
    \/ \E t \in Transports : OnOpen(t)
    \/ \E t \in Transports : Drop(t)
    \/ \E t \in Transports : OnCloseRead(t)
    \/ \E t \in Transports : OnCloseWake(t)
    \/ \E t \in Transports : \E o \in CreateOutcomes : ReconnectCreate(t, o)
    \/ \E t \in Transports : ReconnectReturn(t)

Spec == Init /\ [][Next]_vars

(***************************************************************************)
(* Connection lifecycle: the claims                                        *)
(***************************************************************************)

\* The transports created by the connect() that t's _on_close made.
Children(t) == {c \in Transports : pc[c] # "unused" /\ parent[c] = t}

\* The step in which t's thread leaves time.sleep(5) and calls connect(True).
StartsReconnect == \E t \in Transports : pc[t] = "sleeping" /\ pc'[t] = "rc_create"

\* C1: once an explicit disconnect() has returned, and until the caller calls
\* connect again, no background thread starts a reconnection attempt.
C1_NoReconnectAfterDisconnect ==
    [][StartsReconnect => ~explicit_disconnect]_vars

C9_FlagCheckedAfterWake ==
    [][StartsReconnect => should_reconnect]_vars

\* C10: whenever disconnect() returns, the connected flag and the
\* auto-reconnect flag are both false.
C10_DisconnectClearsBoth ==
    [][(callerPc = "disc_flag" /\ callerPc' = "idle")
         => (~connected' /\ ~should_reconnect')]_vars

\* The transport built by the connect() the caller is in: the newest of those
\* the caller's thread created.
CallerTransport ==
    CHOOSE t \in Transports :
        /\ pc[t] # "unused" /\ parent[t] = 0
        /\ \A u \in Transports : (pc[u] # "unused" /\ parent[u] = 0) => u <= t

\* C14: the caller's connect() starts exactly one transport loop and returns
\* True exactly when the open callback of that transport has fired by the end
\* of the wait; it returns False when creating or starting the transport
\* raises.
C14_ConnectReturnsOpened ==
    [][/\ (callerPc = "connect_create" /\ callerPc' = "connect_wait")
            => Cardinality({t \in Transports : pc[t] = "unused" /\ pc'[t] = "starting"}) = 1
       /\ (callerPc = "connect_create" /\ callerPc' = "idle")
            => connectResult' = "false"
       /\ (callerPc = "connect_wait" /\ callerPc' = "idle")
            => (connectResult' = "true" <=> opened[CallerTransport])]_vars

(***************************************************************************)
(* Inbound dispatch                                                        *)
(***************************************************************************)

\* Handlers the caller registers: one that returns and one that raises.
Handlers == {"hReturns", "hRaises"}

HandlerRaises(h) == h = "hRaises"

\* Names the caller registers handlers under (register_message_handler takes
\* any string; the on_<message> methods pass the specification's names).
RegNames == {"GpioMessage", "GpioAck", "unknown"}

\* Text frames the server sends.
FGpioHigh == "{\"type\":\"GpioMessage\",\"payload\":{\"status\":\"high\"}}"
FAckLow == "{\"type\":\"GpioAck\",\"payload\":{\"status\":\"low\"}}"
FTelemetry == "{\"type\":\"Telemetry\",\"payload\":{\"status\":\"low\"}}"
FNoType == "{\"payload\":{\"status\":\"high\"}}"
FListType == "{\"type\":[\"GpioMessage\"],\"payload\":{\"status\":\"high\"}}"
FArray == "[1]"
FNull == "null"
FGarbage == "not json"

Frames == {FGpioHigh, FAckLow, FTelemetry, FNoType, FListType, FArray, FNull,
           FGarbage}

Str(v) == [kind |-> "str", v |-> v]

Obj(has_type, type, status) ==
    [kind |-> "object", has_type |-> has_type, type |-> type,
     payload |-> [status |-> status]]

NonObj(kind) ==
    [kind |-> kind, has_type |-> FALSE, type |-> NoType, payload |-> [status |-> ""]]

\* json.loads(message), line 329, on the frames above: the exception it
\* raises ("none" if it returns) and the value it returns.
json_loads(text) ==
    CASE text = FGpioHigh -> [exc |-> "none", value |-> Obj(TRUE, Str("GpioMessage"), "high")]
      [] text = FAckLow -> [exc |-> "none", value |-> Obj(TRUE, Str("GpioAck"), "low")]
      [] text = FTelemetry -> [exc |-> "none", value |-> Obj(TRUE, Str("Telemetry"), "low")]
      [] text = FNoType -> [exc |-> "none", value |-> Obj(FALSE, NoType, "high")]
      [] text = FListType ->
           [exc |-> "none",
            value |-> Obj(TRUE, [kind |-> "list", v |-> "GpioMessage"], "high")]
      [] text = FArray -> [exc |-> "none", value |-> NonObj("array")]
      [] text = FNull -> [exc |-> "none", value |-> NonObj("null")]
      [] OTHER -> [exc |-> "JSONDecodeError", value |-> NoData]

\* data.get("type", "unknown"), line 330: only a dict has .get.
GetType(d) ==
    IF d.kind # "object" THEN [exc |-> "AttributeError", value |-> NoType]
    ELSE [exc |-> "none", value |-> IF d.has_type THEN d.type ELSE Str("unknown")]

\* message_type in self.message_handlers, line 332: the key is hashed first,
\* and a list or a dict is not hashable.
InRegistry(key, registry) ==
    IF key.kind \in {"list", "dict"} THEN [exc |-> "TypeError", value |-> FALSE]
    ELSE [exc |-> "none",
          value |-> key.kind = "str" /\ key.v \in DOMAIN registry]

\* An except clause that catches nothing.
CaughtNothing(exc) == FALSE

\* except json.JSONDecodeError, line 341, around the whole of _on_message.
CaughtByDecodeTry(exc) == exc = "JSONDecodeError"

\* except Exception, line 336, around each handler call.
CaughtByHandlerTry(exc) == exc = "Exception"

\* The payload alone, instead of the decoded frame.
PayloadOnly(d) == d.payload

\* The argument of handler(data), line 335.
HandlerArg(d) == d

\* What leaves _on_message when exc is raised inside its try block.
Escapes(exc) == IF exc = "none" \/ CaughtByDecodeTry(exc) THEN "none" ELSE exc

\* A client whose connect() returned True: its first transport is open.
DispatchInit ==
    /\ ws = 1
    /\ connected = TRUE
    /\ should_reconnect \in BOOLEAN
    /\ message_handlers = EmptyRegistry
    /\ callerPc = "idle"
    /\ connectResult = "true"
    /\ pc = [t \in Transports |-> IF t = 1 THEN "open" ELSE "unused"]
    /\ parent = [t \in Transports |-> 0]
    /\ explicit_disconnect = FALSE
    /\ flagAtClose = [t \in Transports |-> "unread"]
    /\ attempts = [t \in Transports |-> 0]
    /\ sleeps = [t \in Transports |-> 0]
    /\ raised = [t \in Transports |-> "none"]
    /\ opened = [t \in Transports |-> t = 1]
    /\ dpc = "loop"
    /\ lastFrame = ""
    /\ data = NoData
    /\ message_type = NoType
    /\ idx = 0
    /\ invoked = <<>>
    /\ escaped = "none"
    /\ atStart = <<>>
    /\ RestInit

\* A registration that puts the handler at the head of the list.
RegisterAtFront(name, handler) ==
    /\ callerPc = "idle"
    /\ name \in DOMAIN message_handlers => Len(message_handlers[name]) < MaxHandlers
    /\ message_handlers' =
          IF name \in DOMAIN message_handlers
            THEN [message_handlers EXCEPT ![name] = <<handler>> \o @]
            ELSE (name :> <<handler>>) @@ message_handlers
    /\ UNCHANGED <<clientVars, lifeVars, dispatchVars, restVars>>

\* register_message_handler(message_type, handler), lines 357-359.
Register(name, handler) ==
    /\ callerPc = "idle"
    /\ name \in DOMAIN message_handlers => Len(message_handlers[name]) < MaxHandlers
    /\ message_handlers' =
          IF name \in DOMAIN message_handlers
            THEN [message_handlers EXCEPT ![name] = Append(@, handler)]
            ELSE (name :> <<handler>>) @@ message_handlers
    /\ UNCHANGED <<clientVars, lifeVars, dispatchVars, restVars>>

\* _on_message(ws, message), lines 328-332 and 338-343: everything up to the
\* first handler call.
OnMessage(message) ==
    LET loaded == json_loads(message)
        got == GetType(loaded.value)
        found == InRegistry(got.value, message_handlers)
        exc == IF loaded.exc # "none" THEN loaded.exc
               ELSE IF got.exc # "none" THEN got.exc
               ELSE found.exc
    IN  /\ dpc = "loop"
        /\ ws # 0 /\ IsOpen(ws)
        /\ lastFrame' = message
        /\ data' = loaded.value
        /\ message_type' = IF loaded.exc = "none" THEN got.value ELSE NoType
        /\ idx' = 0
        /\ invoked' = <<>>
        /\ escaped' = Escapes(exc)
        /\ dpc' = IF exc = "none" /\ found.value THEN "iter" ELSE "loop"
        /\ atStart' = IF exc = "none" /\ found.value
                         THEN message_handlers[got.value.v] ELSE <<>>
        /\ UNCHANGED <<clientVars, message_handlers, lifeVars, restVars>>

\* The list the for loop of line 333 iterates: the registry's own list object,
\* so an append made during the loop is seen by it.
Iterated == message_handlers[message_type.v]

\* A for loop that walks the list from its end.
HandlerAtReversed(list, i) == list[Len(list) - i]

\* The handler the for loop of line 333 yields after i turns.
HandlerAt(list, i) == list[i + 1]

\* One turn of the for loop, lines 333-337: the next handler is called and its
\* exception, if any, is caught and reported; the loop ends when the list is
\* exhausted.
HandlerStep ==
    /\ dpc = "iter"
    /\ IF idx < Len(Iterated)
         THEN LET h == HandlerAt(Iterated, idx)
                  exc == IF HandlerRaises(h) THEN "Exception" ELSE "none"
                  caught == exc = "none" \/ CaughtByHandlerTry(exc)
              IN  /\ invoked' = Append(invoked,
                         [handler |-> h, arg |-> HandlerArg(data),
                          raised |-> exc # "none"])
                  /\ idx' = idx + 1
                  /\ dpc' = IF caught THEN "iter" ELSE "loop"
                  /\ escaped' = IF caught THEN "none" ELSE Escapes(exc)
         ELSE /\ dpc' = "loop"
              /\ UNCHANGED <<idx, invoked, escaped>>
    /\ UNCHANGED <<clientVars, message_handlers, lifeVars, lastFrame, data,
                   message_type, atStart, restVars>>

DispatchNext ==
    \/ \E n \in RegNames : \E h \in Handlers : Register(n, h)
    \/ \E f \in Frames : OnMessage(f)
    \/ HandlerStep

DispatchSpec == DispatchInit /\ [][DispatchNext]_vars

(***************************************************************************)
(* Inbound dispatch: the claims                                            *)
(***************************************************************************)

InvokedHandlers == [i \in 1..Len(invoked) |-> invoked[i].handler]

IsPrefix(s, t) == Len(s) <= Len(t) /\ s = SubSeq(t, 1, Len(s))

Count(seq, h) == Cardinality({i \in 1..Len(seq) : seq[i] = h})

\* The step that hands a frame to _on_message.
FrameArrives == dpc = "loop" /\ dispatchVars' # dispatchVars

\* The step in which the for loop finds its list exhausted.
DispatchCompletes == dpc = "iter" /\ dpc' = "loop" /\ invoked' = invoked

\* The frame decodes to an object whose type is a name with registered handlers.
Routable(frame, registry) ==
    LET loaded == json_loads(frame)
    IN  /\ loaded.exc = "none"
        /\ loaded.value.kind = "object"
        /\ loaded.value.has_type
        /\ loaded.value.type.kind = "str"
        /\ loaded.value.type.v \in DOMAIN registry

Undecodable(frame) == json_loads(frame).exc # "none"

\* C3: a frame that decodes to an object of type T is dispatched to T's list:
\* the handlers called for it are, at every moment, the first handlers of T's
\* list in the list's order, and when the dispatch ends they are the whole
\* list, one call per entry (so a handler registered twice is called twice and
\* a handler that is only in another name's list is not called).
C3_DispatchInRegistrationOrder ==
    /\ [](dpc = "iter" => (Len(invoked) = idx /\ IsPrefix(InvokedHandlers, Iterated)))
    /\ [][(FrameArrives /\ Routable(lastFrame', message_handlers))
            => (dpc' = "iter"
                /\ message_type' = json_loads(lastFrame').value.type)]_vars
    /\ [][DispatchCompletes => InvokedHandlers = Iterated]_vars

\* C3 witness: a dispatch has ended in which the handler registered twice for
\* the frame's name ran twice, while another name has a handler too.
C3_Witness ==
    /\ dpc = "loop" /\ lastFrame = FGpioHigh
    /\ Len(invoked) = 2 /\ invoked[1].handler = invoked[2].handler
    /\ "GpioAck" \in DOMAIN message_handlers
    /\ message_handlers["GpioAck"] = <<"hRaises">>
    /\ InvokedHandlers = <<"hReturns", "hReturns">>

C5_NoFrameIsFatal == escaped = "none"

\* C6: a frame that is not JSON is discarded: _on_message returns without
\* raising and without calling a handler, and leaves the connected flag, the
\* transport handle, the auto-reconnect flag and the registry as they were.
C6_UndecodableDiscarded ==
    /\ [](Undecodable(lastFrame) =>
            (invoked = <<>> /\ escaped = "none" /\ dpc = "loop"))
    /\ [][(FrameArrives /\ Undecodable(lastFrame'))
            => UNCHANGED <<clientVars, message_handlers>>]_vars

\* C6 witness: an undecodable frame has been handled by a connected client
\* that has handlers under every name, "unknown" included.
C6_Witness ==
    /\ lastFrame = FGarbage /\ dpc = "loop" /\ invoked = <<>>
    /\ DOMAIN message_handlers = RegNames
    /\ connected /\ ws = 1

\* C7 as stated: every handler call gets the frame's payload.
C7_HandlerGetsPayload ==
    \A i \in 1..Len(invoked) : invoked[i].arg = json_loads(lastFrame).value.payload

\* C7 as amended: every handler call gets the whole decoded frame, the object
\* with its type and its payload entries, and at the end of the dispatch each
\* handler has been called once per registration under the frame's name.
C7_HandlerGetsEnvelope ==
    /\ [](\A i \in 1..Len(invoked) :
            /\ invoked[i].arg = json_loads(lastFrame).value
            /\ invoked[i].arg.kind = "object"
            /\ invoked[i].arg.has_type => invoked[i].arg.type = message_type)
    /\ [][DispatchCompletes =>
            \A h \in Handlers : Count(InvokedHandlers, h) = Count(Iterated, h)]_vars

\* C7 witness: the spec's example frame has been dispatched to the one handler
\* registered for GpioMessage, called once with the envelope whose payload has
\* status high.
C7_Witness ==
    /\ dpc = "loop" /\ lastFrame = FGpioHigh
    /\ "GpioMessage" \in DOMAIN message_handlers
    /\ message_handlers["GpioMessage"] = <<"hReturns">>
    /\ Len(invoked) = 1
    /\ invoked[1].arg.type = Str("GpioMessage")
    /\ invoked[1].arg.payload = [status |-> "high"]

\* C8: after a frame that decodes to an object whose type value has no
\* registered handler, no handler has been called and nothing was raised.
C8_UnregisteredTypeIgnored ==
    (/\ dpc = "loop"
     /\ data.kind = "object" /\ data.has_type
     /\ ~(data.type.kind = "str" /\ data.type.v \in DOMAIN message_handlers))
    => (invoked = <<>> /\ escaped = "none")

\* C13: a registration made while a frame is being dispatched is excluded from
\* that dispatch: the handlers invoked for the frame are among those its
\* message name had, in their order, when the dispatch began.
C13_RegistrationExcludedFromDispatch == IsPrefix(InvokedHandlers, atStart)

\* The registry with h added at the end of n's list, the list being created
\* when n has none.
AppendedTo(registry, n, h) ==
    [k \in DOMAIN registry \cup {n} |->
        IF k = n THEN Append(IF n \in DOMAIN registry THEN registry[n] ELSE <<>>, h)
        ELSE registry[k]]

\* C20: register_message_handler(T, h) appends h at the end of T's list,
\* creating it if absent, whether or not h is already in it, and changes no
\* other entry or list; no step of the client removes or reorders a
\* registered handler.
C20_RegisterAppendsOnly ==
    [][/\ \A n \in RegNames : \A h \in Handlers :
            Register(n, h) => message_handlers' = AppendedTo(message_handlers, n, h)
       /\ \A n \in DOMAIN message_handlers :
            /\ n \in DOMAIN message_handlers'
            /\ IsPrefix(message_handlers[n], message_handlers'[n])]_vars

\* The same handler is registered twice for one name, next to another name's
\* list.
C20_Witness ==
    /\ DOMAIN message_handlers = {"GpioMessage", "GpioAck"}
    /\ message_handlers["GpioMessage"] = <<"hRaises", "hRaises">>
    /\ message_handlers["GpioAck"] = <<"hReturns">>

(***************************************************************************)
(* Outbound send: send_message and send_raw_message (lines 373-414) called *)
(* by the caller while the background threads of SendSpec run.             *)
(***************************************************************************)

\* Transports one run of SendSpec may create.
MaxSendTransports == 2

\* Arguments of send_message: a message envelope, an envelope whose payload
\* holds an Enum member, a dict that contains itself.
MessageArgs == {[kind |-> "envelope", text |-> ""],
                [kind |-> "enum_payload", text |-> ""],
                [kind |-> "circular", text |-> ""]}

\* Arguments of send_raw_message.
RawArgs == {[kind |-> "str", text |-> "ping"]}

TEnvelope == "{\"type\": \"GpioMessage\", \"payload\": {\"status\": \"high\"}}"

TEnumPayload == "{\"type\": \"GpioMessage\", \"payload\": {\"status\": \"GpioStatus.HIGH\"}}"

\* json.dumps(data, default=str), line 388: the text, or the exception raised.
json_dumps(d) ==
    CASE d.kind = "envelope" -> [exc |-> "none", text |-> TEnvelope]
      [] d.kind = "enum_payload" -> [exc |-> "none", text |-> TEnumPayload]
      [] OTHER -> [exc |-> "ValueError", text |-> ""]

\* What the socket write of an open transport can do.
WriteOutcomes == {"ok", "error"}

\* self.ws.send(message), lines 389 and 410, on transport t.
ws_send(t, message, outcome) ==
    IF ~IsOpen(t) THEN
        [exc |-> "WebSocketConnectionClosedException", text |-> ""]
    ELSE IF outcome = "error" THEN [exc |-> "OSError", text |-> ""]
    ELSE [exc |-> "none", text |-> message.text]

\* The classes derived from Exception among the exceptions above (all of them).
ExceptionSubclasses == {"ValueError", "OSError",
                        "WebSocketConnectionClosedException"}

\* except Exception, lines 391 and 412.
CaughtBySendTry(exc) == exc \in ExceptionSubclasses

\* A guard that lets the call through unless both conditions fail.
NotConnectedBoth(c, w) == ~c /\ w = 0

\* not self.connected or not self.ws, lines 383 and 405.
NotConnected(c, w) == ~c \/ w = 0

\* send_message(data) / send_raw_message(message), lines 383-385 and 405-407:
\* the connected check, and the return of False when it fails.
SendBegin(kind, arg) ==
    /\ callerPc = "idle"
    /\ sendKind' = kind
    /\ sendArg' = arg
    /\ wire' = NoWire
    /\ sendRaised' = "none"
    /\ IF NotConnected(connected, ws)
         THEN sendResult' = "false" /\ callerPc' = "idle"
         ELSE sendResult' = "none" /\ callerPc' = "send_write"
    /\ UNCHANGED <<clientVars, message_handlers, connectResult, pc, parent,
                   explicit_disconnect, flagAtClose, attempts, sleeps, raised,
                   opened,
                   dispatchVars, errorVars, cliVars, adapterVars, nameVars, genVars>>

\* The text wrapped in a serialized envelope.
RawFrameEnveloped(message) == [kind |-> "str", text |-> TEnvelope]

\* Line 410: send_raw_message passes its argument to self.ws.send as it is.
RawFrame(message) == message

\* Lines 387-393 and 409-414: the try block, which serializes (send_message
\* only), reads self.ws again and writes to it.
SendWrite(outcome) ==
    LET dumped == IF sendKind = "message" THEN json_dumps(sendArg)
                  ELSE [exc |-> "none", text |-> sendArg.text]
        message == IF sendKind = "message"
                     THEN [kind |-> "str", text |-> dumped.text]
                     ELSE RawFrame(sendArg)
        sent == ws_send(ws, message, outcome)
        exc == IF dumped.exc # "none" THEN dumped.exc ELSE sent.exc
    IN  /\ callerPc = "send_write"
        /\ callerPc' = "idle"
        /\ wire' = IF exc = "none" THEN [t |-> ws, text |-> sent.text] ELSE NoWire
        /\ sendResult' = IF exc = "none" THEN "true"
                         ELSE IF CaughtBySendTry(exc) THEN "false" ELSE "none"
        /\ sendRaised' = IF exc = "none" \/ CaughtBySendTry(exc) THEN "none" ELSE exc
        /\ UNCHANGED <<clientVars, message_handlers, connectResult, pc, parent,
                       explicit_disconnect, flagAtClose, attempts, sleeps,
                       raised, opened,
                   dispatchVars, errorVars, cliVars, adapterVars, sendKind, sendArg,
                       nameVars, genVars>>

SendNext ==
    \/ Next /\ Cardinality(Transports \ Unused') <= MaxSendTransports
    \/ \E a \in MessageArgs : SendBegin("message", a)
    \/ \E a \in RawArgs : SendBegin("raw", a)
    \/ \E o \in WriteOutcomes : SendWrite(o)

SendSpec == Init /\ [][SendNext]_vars

\* The step in which a send call returns.
SendReturns == sendVars' # sendVars /\ callerPc' = "idle"

MaxNameLen == 3

LowerCase == <<"a", "b", "c", "d", "e", "f", "g", "h", "i", "j", "k", "l", "m">>
             \o <<"n", "o", "p", "q", "r", "s", "t", "u", "v", "w", "x", "y", "z">>

UpperCase == <<"A", "B", "C", "D", "E", "F", "G", "H", "I", "J", "K", "L", "M">>
             \o <<"N", "O", "P", "Q", "R", "S", "T", "U", "V", "W", "X", "Y", "Z">>

Digits == {"0", "1", "2", "3", "4", "5", "6", "7", "8", "9"}

\* The character classes [A-Z] and [a-z] of lines 26-27.
IsUpper(c) == \E i \in DOMAIN UpperCase : UpperCase[i] = c

IsLower(c) == \E i \in DOMAIN LowerCase : LowerCase[i] = c

LowerOf(c) ==
    IF IsUpper(c) THEN LowerCase[CHOOSE i \in DOMAIN UpperCase : UpperCase[i] = c]
    ELSE c

UpperOf(c) ==
    IF IsLower(c) THEN UpperCase[CHOOSE i \in DOMAIN LowerCase : LowerCase[i] = c]
    ELSE c

\* str.lower()
str_lower(s) == [i \in 1..Len(s) |-> LowerOf(s[i])]

\* str.capitalize(): the first character upper-cased, all the others lower-cased.
str_capitalize(w) == [i \in 1..Len(w) |-> IF i = 1 THEN UpperOf(w[i]) ELSE LowerOf(w[i])]

\* str.replace(old, new) for one-character old and new.
str_replace(s, old, new) == [i \in 1..Len(s) |-> IF s[i] = old THEN new ELSE s[i]]

\* str.split(sep) for a one-character sep: always at least one word.
RECURSIVE str_split(_, _)
str_split(s, sep) ==
    IF \A i \in 1..Len(s) : s[i] # sep THEN <<s>>
    ELSE LET i == CHOOSE k \in 1..Len(s) :
                      s[k] = sep /\ \A l \in 1..(k - 1) : s[l] # sep
         IN  <<SubSeq(s, 1, i - 1)>> \o str_split(SubSeq(s, i + 1, Len(s)), sep)

\* ''.join(words)
RECURSIVE str_join(_)
str_join(words) ==
    IF words = <<>> THEN <<>> ELSE Head(words) \o str_join(Tail(words))

\* to_pascal_case(text), lines 16-21.
to_pascal_case(text) ==
    LET words == str_split(str_replace(str_replace(text, "-", "_"), " ", "_"), "_")
    IN  str_join([i \in 1..Len(words) |-> str_capitalize(words[i])])

\* Last position of the run of [a-z] characters that starts at i.
RECURSIVE LowerRunEnd(_, _)
LowerRunEnd(s, i) ==
    IF i <= Len(s) /\ IsLower(s[i]) THEN LowerRunEnd(s, i + 1) ELSE i - 1

\* re.sub('(.)([A-Z][a-z]+)', r'\1_\2', s), line 26, from position i on: the
\* leftmost match is replaced and the scan resumes after it.
RECURSIVE SubBeforeWord(_, _)
SubBeforeWord(s, i) ==
    IF i > Len(s) THEN <<>>
    ELSE IF i + 2 <= Len(s) /\ s[i] # "\n" /\ IsUpper(s[i + 1]) /\ IsLower(s[i + 2])
      THEN LET j == LowerRunEnd(s, i + 2)
           IN  <<s[i], "_">> \o SubSeq(s, i + 1, j) \o SubBeforeWord(s, j + 1)
      ELSE <<s[i]>> \o SubBeforeWord(s, i + 1)

\* re.sub('([a-z0-9])([A-Z])', r'\1_\2', s), line 27, from position i on.
RECURSIVE SubCaseChange(_, _)
SubCaseChange(s, i) ==
    IF i > Len(s) THEN <<>>
    ELSE IF i + 1 <= Len(s) /\ (IsLower(s[i]) \/ s[i] \in Digits) /\ IsUpper(s[i + 1])
      THEN <<s[i], "_", s[i + 1]>> \o SubCaseChange(s, i + 2)
      ELSE <<s[i]>> \o SubCaseChange(s, i + 1)

\* to_snake_case(text), lines 24-28.
to_snake_case(text) == str_lower(SubCaseChange(SubBeforeWord(text, 1), 1))

\* Names of the repository's example specification, and a snake_case one.
NGpioMessage == <<"G", "p", "i", "o", "M", "e", "s", "s", "a", "g", "e">>

NGpioAck == <<"G", "p", "i", "o", "A", "c", "k">>

NSnakeGpioMessage == <<"g", "p", "i", "o", "_", "m", "e", "s", "s", "a", "g", "e">>

\* The characters the generated identifiers are made of: a lower-case and an
\* upper-case letter, a digit, and the three separators of line 19.
NameAlphabet == {"a", "B", "1", "_", "-", " "}

Identifiers ==
    {NGpioMessage, NGpioAck, NSnakeGpioMessage}
        \cup UNION {[1..n -> NameAlphabet] : n \in 0..MaxNameLen}

\* The generator is about to convert one identifier of its input.
NameInit ==
    /\ ClientFresh
    /\ SendIdle
    /\ ErrorIdle
    /\ CliIdle
    /\ AdapterIdle
    /\ GenIdle
    /\ ident \in Identifiers
    /\ pascal = <<>>
    /\ snake = <<>>
    /\ converted = {}

\* A call of to_pascal_case on the identifier.
ToPascal ==
    /\ "pascal" \notin converted
    /\ pascal' = to_pascal_case(ident)
    /\ converted' = converted \cup {"pascal"}
    /\ UNCHANGED <<clientVars, message_handlers, lifeVars, dispatchVars, errorVars, cliVars, adapterVars,
                   sendVars, genVars, ident, snake>>

\* A call of to_snake_case on the identifier.
ToSnake ==
    /\ "snake" \notin converted
    /\ snake' = to_snake_case(ident)
    /\ converted' = converted \cup {"snake"}
    /\ UNCHANGED <<clientVars, message_handlers, lifeVars, dispatchVars, errorVars, cliVars, adapterVars,
                   sendVars, genVars, ident, pascal>>

NameNext == ToPascal \/ ToSnake

NameSpec == NameInit /\ [][NameNext]_vars

\* Each '_'-separated word with its first character upper-cased, concatenated.
WordCapitalized(s) ==
    LET words == str_split(s, "_")
    IN  str_join([i \in 1..Len(words) |->
            [k \in 1..Len(words[i]) |->
                IF k = 1 THEN UpperOf(words[i][k]) ELSE words[i][k]]])

\* C16: for every identifier, to_pascal_case of it equals the '_'-separated
\* words of to_snake_case of it, each capitalized, concatenated.
C16_PascalIsCapitalizedSnake ==
    converted = {"pascal", "snake"} => pascal = WordCapitalized(snake)

(***************************************************************************)
(* generate_client_code (lines 117-513) and get_python_type (lines         *)
(* 516-543): the definitions the generator writes, in order, for a schema  *)
(* table and a channel table. Names and type texts are sequences of        *)
(* characters.                                                             *)
(***************************************************************************)

\* Most properties an object schema of the input declares.
MaxProps == 2

\* Most channels the channel table of the input declares.
MaxChannels == 2

\* Most messages one channel of the input declares.
MaxMessages == 2

\* Most literal values an enum schema of the input declares.
MaxEnumValues == 2

TAny == <<"A", "n", "y">>

TStr == <<"s", "t", "r">>

TInt == <<"i", "n", "t">>

TFloat == <<"f", "l", "o", "a", "t">>

TBool == <<"b", "o", "o", "l">>

TDict == <<"D", "i", "c", "t", "[", "s", "t", "r", ",", " ", "A", "n", "y", "]">>

ListOf(t) == <<"L", "i", "s", "t", "[">> \o t \o <<"]">>

OptionalOf(t) == <<"O", "p", "t", "i", "o", "n", "a", "l", "[">> \o t \o <<"]">>

NUnknownEnum == <<"U", "n", "k", "n", "o", "w", "n", "E", "n", "u", "m">>

NGpioStatus == <<"G", "p", "i", "o", "S", "t", "a", "t", "u", "s">>

NMissing == <<"M", "i", "s", "s", "i", "n", "g">>

NStatus == <<"s", "t", "a", "t", "u", "s">>

NPin == <<"p", "i", "n">>

NMode == <<"m", "o", "d", "e">>

NLabel == <<"l", "a", "b", "e", "l">>

NReply == <<"r", "e", "p", "l", "y">>

NRequest == <<"r", "e", "q", "u", "e", "s", "t">>

NGpioMode == <<"G", "p", "i", "o", "M", "o", "d", "e">>

VHigh == <<"h", "i", "g", "h">>

VLow == <<"l", "o", "w">>

VActiveLow == <<"a", "c", "t", "i", "v", "e", "-", "l", "o", "w">>

VOpenDrain == <<"o", "p", "e", "n", " ", "d", "r", "a", "i", "n">>

VVersion == <<"v", "1", ".", "2">>

\* Property schemas: {} ; {"$ref": "#/components/schemas/<name>"} ;
\* {"type": <t>} ; {"type": "array", "items": <schema>}.
EmptySchema == [has_ref |-> FALSE, type |-> "", has_enum |-> FALSE,
                has_title |-> FALSE, has_items |-> FALSE]

RefSchema(name) ==
    [has_ref |-> TRUE, ref |-> <<"#", "components", "schemas", name>>,
     type |-> "", has_enum |-> FALSE, has_title |-> FALSE, has_items |-> FALSE]

TypeSchema(t) == [has_ref |-> FALSE, type |-> t, has_enum |-> FALSE,
                  has_title |-> FALSE, has_items |-> FALSE]

\* {"type": "string", "enum": [...]} written inline as a property's schema,
\* with or without a "title".
InlineEnumSchema(has_title, title) ==
    [has_ref |-> FALSE, type |-> "string", has_enum |-> TRUE,
     has_title |-> has_title, title |-> title, has_items |-> FALSE]

ArraySchema(items) == [has_ref |-> FALSE, type |-> "array", has_enum |-> FALSE,
                       has_title |-> FALSE, has_items |-> TRUE, items |-> items]

\* get_python_type(schema, all_schemas), lines 516-543.
RECURSIVE get_python_type(_, _)
get_python_type(schema, all_schemas) ==
    IF schema.has_ref
      THEN LET ref_name == schema.ref[Len(schema.ref)]
           IN  to_pascal_case(ref_name)
    ELSE CASE schema.type = "string" ->
                  IF schema.has_enum
                    THEN to_pascal_case(IF schema.has_title THEN schema.title
                                        ELSE NUnknownEnum)
                    ELSE TStr
           [] schema.type = "integer" -> TInt
           [] schema.type = "number" -> TFloat
           [] schema.type = "boolean" -> TBool
           [] schema.type = "array" ->
                  ListOf(get_python_type(IF schema.has_items THEN schema.items
                                         ELSE EmptySchema, all_schemas))
           [] schema.type = "object" -> TDict
           [] OTHER -> TAny

\* The schemas of the table (components.schemas): a string enum and an object.
EnumSchema(name, values) ==
    [name |-> name, type |-> "string", enum |-> values, properties |-> <<>>,
     required |-> {}]

ObjectSchema(name, properties, required) ==
    [name |-> name, type |-> "object", enum |-> <<>>, properties |-> properties,
     required |-> required]

\* Sequences without repetition over the elements of the set S, at most n long.
InjectiveSeqs(S, n) ==
    UNION {{s \in [1..k -> S] : \A i, j \in 1..k : i # j => s[i] # s[j]} :
             k \in 0..n}

\* The names of an object schema's properties, in declaration order.
PropNames == <<NStatus, NPin, NMode, NLabel>>

PropSchemas == {RefSchema(NGpioStatus), RefSchema(NMissing), TypeSchema("string"),
                ArraySchema(TypeSchema("integer"))}

\* The property tables an object schema may have: the first k names, each
\* with a schema.
PropTables ==
    UNION {{[i \in 1..k |-> [name |-> PropNames[i], schema |-> sch[i]]] :
               sch \in [1..k -> PropSchemas]} :
             k \in 0..MaxProps}

ObjectSchemas ==
    UNION {{ObjectSchema(NGpioMessage, props, req) :
               req \in SUBSET {props[i].name : i \in 1..Len(props)}} :
             props \in PropTables}

GpioStatusSchema == EnumSchema(NGpioStatus, <<VHigh, VLow>>)

\* Schema tables: one object schema, alone or with the enum schema declared
\* before or after it.
SchemaTables ==
    UNION {{<<o>>, <<GpioStatusSchema, o>>, <<o, GpioStatusSchema>>} :
             o \in ObjectSchemas}

MessageNames == {NGpioMessage, NGpioAck, NSnakeGpioMessage}

\* Channel tables: per channel the names of its messages, which are the keys
\* of a dict and so distinct within the channel.
ChannelTables ==
    UNION {[1..k -> InjectiveSeqs(MessageNames, MaxMessages)] :
             k \in 0..MaxChannels}

\* The tables of the example specification.
ExampleSchemas ==
    <<GpioStatusSchema,
      ObjectSchema(NGpioMessage,
                   <<[name |-> NStatus, schema |-> RefSchema(NGpioStatus)]>>,
                   {NStatus})>>

ExampleChannels == <<<<NGpioMessage, NGpioAck>>>>

EnumValues == {VHigh, VLow, VActiveLow, VOpenDrain, VVersion}

\* Schema tables that vary the enum schema: its literal values, in order, with
\* the example's object schema after it.
EnumTables ==
    {<<EnumSchema(NGpioStatus, vs), ExampleSchemas[2]>> :
        vs \in InjectiveSeqs(EnumValues, MaxEnumValues)}

\* Two enum schemas and two object schemas that refer to each other, the
\* second also holding inline string enums.
CrossSchemas ==
    {GpioStatusSchema,
     EnumSchema(NGpioMode, <<VActiveLow, VOpenDrain>>),
     ObjectSchema(NGpioMessage,
                  <<[name |-> NStatus, schema |-> RefSchema(NGpioStatus)],
                    [name |-> NReply, schema |-> RefSchema(NGpioAck)]>>,
                  {NStatus}),
     ObjectSchema(NGpioAck,
                  <<[name |-> NRequest, schema |-> RefSchema(NGpioMessage)],
                    [name |-> NMode, schema |-> InlineEnumSchema(TRUE, NGpioMode)],
                    [name |-> NLabel, schema |-> InlineEnumSchema(FALSE, <<>>)]>>,
                  {NRequest})}

\* Schema tables that declare some of them, in any order.
CrossTables == InjectiveSeqs(CrossSchemas, Cardinality(CrossSchemas))

\* Two channels, the first with two messages.
CrossChannels == <<<<NGpioAck, NGpioMessage>>, <<NSnakeGpioMessage>>>>

\* The inputs of a run: the two tables are read by separate loops, so each
\* is varied with the other held fixed.
Specifications ==
    {[schemas |-> s, channels |-> ExampleChannels] :
        s \in SchemaTables \cup EnumTables}
    \cup {[schemas |-> s, channels |-> CrossChannels] : s \in CrossTables}
        \cup {[schemas |-> ExampleSchemas, channels |-> c] : c \in ChannelTables}

\* The title of the example specification (info.title).
NTitle == <<"P", "h", "o", "b", "o", "s", " ", "G", "P", "I", "O", " ">>
          \o <<"I", "n", "t", "e", "r", "f", "a", "c", "e", " ", "A", "P", "I">>

NClient == <<"C", "l", "i", "e", "n", "t">>

NSendPrefix == <<"s", "e", "n", "d", "_">>

NOnPrefix == <<"o", "n", "_">>

NNone == <<"N", "o", "n", "e">>

\* str.upper()
str_upper(s) == [i \in 1..Len(s) |-> UpperOf(s[i])]

\* str.replace(old, '') for a one-character old.
RECURSIVE str_remove(_, _)
str_remove(s, old) ==
    IF s = <<>> THEN <<>>
    ELSE (IF Head(s) = old THEN <<>> ELSE <<Head(s)>>) \o str_remove(Tail(s), old)

\* One definition of the emitted source: an enum class, one of its constants,
\* a dataclass, one of its fields, the client class, or one of its methods.
\* type is a field's annotation, a constant's value, or the wire type name a
\* method puts in its body; owner is the class the definition is in.
Item(kind, name, type, owner, default) ==
    [kind |-> kind, name |-> name, type |-> type, owner |-> owner,
     default |-> default]

\* Line 121.
client_class_name == to_pascal_case(str_remove(NTitle, " ")) \o NClient

\* A constant named by the enum value as it is.
EnumConstantVerbatim(enum_class_name, enum_value) ==
    Item("const", enum_value, enum_value, enum_class_name, <<>>)

\* Lines 168-173: the constant emitted for one enum value.
EnumConstant(enum_class_name, enum_value) ==
    LET const_name ==
            str_replace(str_replace(str_replace(str_upper(enum_value),
                "-", "_"), " ", "_"), ".", "_")
    IN  Item("const", const_name, enum_value, enum_class_name, <<>>)

\* Lines 153-173: what the enum loop writes for one schema of the table.
EnumItems(schema) ==
    IF schema.type = "string" /\ schema.enum # <<>>
      THEN LET enum_class_name == to_pascal_case(schema.name)
           IN  <<Item("enum", enum_class_name, <<>>, <<>>, <<>>)>>
                   \o [i \in 1..Len(schema.enum) |->
                          EnumConstant(enum_class_name, schema.enum[i])]
      ELSE <<>>

\* A dataclass whose fields are all written in declaration order.
RecordItemsAsDeclared(schema, all_schemas) ==
    IF schema.type = "object"
      THEN LET class_name == to_pascal_case(schema.name)
               props == schema.properties
           IN  <<Item("record", class_name, <<>>, <<>>, <<>>)>>
                   \o [i \in 1..Len(props) |->
                          IF props[i].name \in schema.required
                            THEN Item("field", props[i].name,
                                      get_python_type(props[i].schema, all_schemas),
                                      class_name, <<>>)
                            ELSE Item("field", props[i].name,
                                      OptionalOf(get_python_type(props[i].schema,
                                                                 all_schemas)),
                                      class_name, NNone)]
      ELSE <<>>

\* A dataclass whose required fields are written in the iteration order of
\* the set of line 181, which follows the interpreter's string-hash seed.
RecordItemsInHashOrder(schema, all_schemas) ==
    IF schema.type = "object"
      THEN LET class_name == to_pascal_case(schema.name)
               IsRequired(p) == p.name \in schema.required
               IsOptional(p) == p.name \notin schema.required
               declared == SelectSeq(schema.properties, IsRequired)
               req == IF hash_seed = "seed_a" THEN declared
                      ELSE [i \in 1..Len(declared) |-> declared[Len(declared) + 1 - i]]
               opt == SelectSeq(schema.properties, IsOptional)
           IN  <<Item("record", class_name, <<>>, <<>>, <<>>)>>
                   \o [i \in 1..Len(req) |->
                          Item("field", req[i].name,
                               get_python_type(req[i].schema, all_schemas),
                               class_name, <<>>)]
                   \o [i \in 1..Len(opt) |->
                          Item("field", opt[i].name,
                               OptionalOf(get_python_type(opt[i].schema, all_schemas)),
                               class_name, NNone)]
      ELSE <<>>

\* Lines 178-213: what the dataclass loop writes for one schema of the table:
\* the class, its required fields, then its optional fields.
RecordItems(schema, all_schemas) ==
    IF schema.type = "object"
      THEN LET class_name == to_pascal_case(schema.name)
               IsRequired(p) == p.name \in schema.required
               IsOptional(p) == p.name \notin schema.required
               req == SelectSeq(schema.properties, IsRequired)
               opt == SelectSeq(schema.properties, IsOptional)
           IN  <<Item("record", class_name, <<>>, <<>>, <<>>)>>
                   \o [i \in 1..Len(req) |->
                          Item("field", req[i].name,
                               get_python_type(req[i].schema, all_schemas),
                               class_name, <<>>)]
                   \o [i \in 1..Len(opt) |->
                          Item("field", opt[i].name,
                               OptionalOf(get_python_type(opt[i].schema, all_schemas)),
                               class_name, NNone)]
      ELSE <<>>

\* A method name in PascalCase.
PascalMethodName(message_name) == to_pascal_case(message_name)

\* Line 421: method_name = to_snake_case(message_name).lower()
MethodName(message_name) == str_lower(to_snake_case(message_name))

\* Lines 423-450: the two methods written for one message of one channel.
MethodItems(message_name) ==
    <<Item("send", NSendPrefix \o MethodName(message_name), message_name,
           client_class_name, <<>>),
      Item("on", NOnPrefix \o MethodName(message_name), message_name,
           client_class_name, <<>>)>>

\* The iterations taken from the last channel to the first.
RECURSIVE MessagePairsLastFirst(_)
MessagePairsLastFirst(chs) ==
    IF chs = <<>> THEN <<>> ELSE MessagePairsLastFirst(Tail(chs)) \o Head(chs)

\* The (channel, message) iterations of lines 418-420, in order.
RECURSIVE MessagePairs(_)
MessagePairs(chs) ==
    IF chs = <<>> THEN <<>> ELSE Head(chs) \o MessagePairs(Tail(chs))

\* generate_client_code is called with the two tables.
GenInit ==
    /\ ClientFresh
    /\ SendIdle
    /\ ErrorIdle
    /\ CliIdle
    /\ AdapterIdle
    /\ NameIdle
    /\ \E sp \in Specifications :
          schemas = sp.schemas /\ channels = sp.channels
    /\ gpc = "enums"
    /\ gi = 0
    /\ emitted = <<>>
    /\ called = NoCall
    /\ hash_seed = "seed_a"
    /\ previous = <<>>
    /\ registered = <<>>
    /\ delivered = <<>>

\* One iteration of the enum loop (line 153), or its end.
GenEnum ==
    /\ gpc = "enums"
    /\ IF gi < Len(schemas)
         THEN /\ emitted' = emitted \o EnumItems(schemas[gi + 1])
              /\ gi' = gi + 1
              /\ gpc' = gpc
         ELSE /\ gpc' = "records"
              /\ gi' = 0
              /\ emitted' = emitted
    /\ UNCHANGED <<clientVars, message_handlers, lifeVars, dispatchVars, errorVars, cliVars, adapterVars,
                   sendVars, nameVars, schemas, channels, called,
                   hash_seed, previous, registered, delivered>>

\* One iteration of the dataclass loop (line 178), or its end.
GenRecord ==
    /\ gpc = "records"
    /\ IF gi < Len(schemas)
         THEN /\ emitted' = emitted \o RecordItems(schemas[gi + 1], schemas)
              /\ gi' = gi + 1
              /\ gpc' = gpc
         ELSE /\ gpc' = "client"
              /\ gi' = 0
              /\ emitted' = emitted
    /\ UNCHANGED <<clientVars, message_handlers, lifeVars, dispatchVars, errorVars, cliVars, adapterVars,
                   sendVars, nameVars, schemas, channels, called,
                   hash_seed, previous, registered, delivered>>

\* Lines 216-415: the client class and its fixed methods.
GenClient ==
    /\ gpc = "client"
    /\ emitted' = Append(emitted, Item("client", client_class_name, <<>>, <<>>, <<>>))
    /\ gpc' = "methods"
    /\ gi' = 0
    /\ UNCHANGED <<clientVars, message_handlers, lifeVars, dispatchVars, errorVars, cliVars, adapterVars,
                   sendVars, nameVars, schemas, channels, called,
                   hash_seed, previous, registered, delivered>>

\* One iteration of the message loops (lines 418-451), or their end.
GenMethods ==
    /\ gpc = "methods"
    /\ IF gi < Len(MessagePairs(channels))
         THEN /\ emitted' = emitted \o MethodItems(MessagePairs(channels)[gi + 1])
              /\ gi' = gi + 1
              /\ gpc' = gpc
         ELSE /\ gpc' = "done"
              /\ gi' = 0
              /\ emitted' = emitted
    /\ UNCHANGED <<clientVars, message_handlers, lifeVars, dispatchVars, errorVars, cliVars, adapterVars,
                   sendVars, nameVars, schemas, channels, called,
                   hash_seed, previous, registered, delivered>>

\* The positions in the source of the definitions of the method called name:
\* the class body binds the name to the last of them.
DefsOf(kind, name) ==
    {i \in 1..Len(emitted) : emitted[i].kind = kind /\ emitted[i].name = name}

Bound(kind, name) ==
    emitted[CHOOSE i \in DefsOf(kind, name) : \A j \in DefsOf(kind, name) : j <= i]

\* The caller's first call, on a client of the emitted class, of the send_
\* method the generator named after message; send_message returns result
\* (lines 432-436).
CallSend(message, result) ==
    LET name == NSendPrefix \o MethodName(message)
    IN  /\ gpc = "done"
        /\ called = NoCall
        /\ \E k \in 1..Len(MessagePairs(channels)) : MessagePairs(channels)[k] = message
        /\ called' = [method |-> name, of |-> message,
                      type |-> Bound("send", name).type, payload |-> "payload",
                      sent |-> result, returned |-> result]
        /\ UNCHANGED <<clientVars, message_handlers, lifeVars, dispatchVars, errorVars, cliVars, adapterVars,
                       sendVars, nameVars, schemas, channels, gpc, gi, emitted,
                       hash_seed, previous, registered, delivered>>

GenNext ==
    \/ GenEnum
    \/ GenRecord
    \/ GenClient
    \/ GenMethods
    \/ \E msg \in MessageNames : \E r \in {"true", "false"} : CallSend(msg, r)

GenSpec == GenInit /\ [][GenNext]_vars

(***************************************************************************)
(* The generator: the claims                                               *)
(***************************************************************************)

SchemaNames == {schemas[i].name : i \in 1..Len(schemas)}

\* The fields written for property prop of the object schema named owner.
FieldsFor(owner, prop) ==
    {i \in 1..Len(emitted) :
        /\ emitted[i].kind = "field"
        /\ emitted[i].owner = to_pascal_case(owner)
        /\ emitted[i].name = prop}

\* C15: a record property whose $ref names a schema absent from the schema
\* table is emitted with the generic type Any (Optional[Any] when it is not
\* required), and the run completes.
C15_AbsentRefIsAny ==
    gpc = "done" =>
        \A i \in 1..Len(schemas) : \A k \in 1..Len(schemas[i].properties) :
            LET p == schemas[i].properties[k]
            IN  (p.schema.has_ref /\ p.schema.ref[Len(p.schema.ref)] \notin SchemaNames)
                    => /\ FieldsFor(schemas[i].name, p.name) # {}
                       /\ \A f \in FieldsFor(schemas[i].name, p.name) :
                              emitted[f].type \in {TAny, OptionalOf(TAny)}

\* C17: no two emitted methods of the client have the same name: distinct
\* message names give distinct method names, and a message declared in
\* several channels gives its pair of methods once.
C17_MethodNamesDistinct ==
    \A i, j \in 1..Len(emitted) :
        (i < j /\ emitted[i].kind \in {"send", "on"} /\ emitted[j].kind = emitted[i].kind)
            => emitted[i].name # emitted[j].name

IsMethod(item) == item.kind \in {"send", "on"}

\* C18: for every message name M of every channel the emitter writes a method
\* send_<to_snake_case(M)> and a method on_<to_snake_case(M)>, one pair per
\* declaration, in declaration order; GpioMessage gives send_gpio_message and
\* on_gpio_message.
C18_MethodsNamedInSnakeCase ==
    gpc = "done" =>
        LET methods == SelectSeq(emitted, IsMethod)
            pairs == MessagePairs(channels)
        IN  /\ Len(methods) = 2 * Len(pairs)
            /\ \A k \in 1..Len(pairs) :
                  /\ methods[2 * k - 1].kind = "send"
                  /\ methods[2 * k - 1].name = NSendPrefix \o to_snake_case(pairs[k])
                  /\ methods[2 * k].kind = "on"
                  /\ methods[2 * k].name = NOnPrefix \o to_snake_case(pairs[k])
                  /\ pairs[k] = NGpioMessage =>
                        /\ methods[2 * k - 1].name = <<"s", "e", "n", "d", "_", "g", "p", "i", "o", "_", "m", "e", "s", "s", "a", "g", "e">>
                        /\ methods[2 * k].name = <<"o", "n", "_", "g", "p", "i", "o", "_", "m", "e", "s", "s", "a", "g", "e">>

\* The run is over for a table of two channels that declare GpioMessage and
\* GpioAck, and the methods of GpioMessage are in the source.
C18_Witness ==
    /\ gpc = "done"
    /\ channels = <<<<NGpioMessage>>, <<NGpioAck, NGpioMessage>>>>
    /\ DefsOf("send", NSendPrefix \o to_snake_case(NGpioMessage)) # {}
    /\ DefsOf("on", NOnPrefix \o to_snake_case(NGpioAck)) # {}

\* C19: for each message M, calling the emitted send_<m>(payload) hands
\* send_message the object {type: M, payload: payload}, M verbatim, and returns
\* what send_message returned.
C19_SendHandsEnvelopeOfItsMessage ==
    called # NoCall =>
        /\ called.type = called.of
        /\ called.payload = "payload"
        /\ called.returned = called.sent

(***************************************************************************)
(* Transport errors: _on_error (lines 317-324), handler by handler, on the *)
(* thread of the open transport, interleaved with the caller's             *)
(* register_error_handler (lines 361-371).                                 *)
(***************************************************************************)

\* Errors the transport reports to on_error.
TransportErrors == {"WebSocketTimeoutException", "ConnectionResetError"}

\* except Exception, line 323, around each error handler call.
CaughtByErrorTry(exc) == exc = "Exception"

\* register_error_handler(handler), line 371.
RegisterError(handler) ==
    /\ callerPc = "idle"
    /\ Len(error_handlers) < MaxHandlers
    /\ error_handlers' = Append(error_handlers, handler)
    /\ UNCHANGED <<clientVars, message_handlers, lifeVars, dispatchVars,
                   sendVars, nameVars, genVars, cliVars, adapterVars, epc, lastError, eidx, einvoked,
                   eescaped, eAtStart>>

\* _on_error(ws, error), lines 319-320: the report, and the for loop begins.
OnError(error) ==
    /\ epc = "loop"
    /\ ws # 0 /\ IsOpen(ws)
    /\ lastError' = error
    /\ eidx' = 0
    /\ einvoked' = <<>>
    /\ eescaped' = "none"
    /\ eAtStart' = error_handlers
    /\ epc' = "iter"
    /\ UNCHANGED <<clientVars, message_handlers, lifeVars, dispatchVars,
                   sendVars, nameVars, genVars, cliVars, adapterVars, error_handlers>>

\* One turn of the for loop of lines 320-324 over self.error_handlers itself:
\* the next handler is called with the error and its exception, if any, is
\* caught and reported; the loop ends when the list is exhausted.
ErrorStep ==
    /\ epc = "iter"
    /\ IF eidx < Len(error_handlers)
         THEN LET h == error_handlers[eidx + 1]
                  exc == IF HandlerRaises(h) THEN "Exception" ELSE "none"
                  caught == exc = "none" \/ CaughtByErrorTry(exc)
              IN  /\ einvoked' = Append(einvoked,
                         [handler |-> h, arg |-> lastError, raised |-> exc # "none"])
                  /\ eidx' = eidx + 1
                  /\ epc' = IF caught THEN "iter" ELSE "loop"
                  /\ eescaped' = IF caught THEN "none" ELSE exc
         ELSE /\ epc' = "loop"
              /\ UNCHANGED <<eidx, einvoked, eescaped>>
    /\ UNCHANGED <<clientVars, message_handlers, lifeVars, dispatchVars,
                   sendVars, nameVars, genVars, cliVars, adapterVars, error_handlers, lastError,
                   eAtStart>>

ErrorNext ==
    \/ \E h \in Handlers : RegisterError(h)
    \/ \E e \in TransportErrors : OnError(e)
    \/ ErrorStep

\* A connected client on whose transport errors are reported.
ErrorSpec == DispatchInit /\ [][ErrorNext]_vars

EInvokedHandlers == [i \in 1..Len(einvoked) |-> einvoked[i].handler]

FieldsOf(owner) ==
    LET IsField(item) == item.kind = "field" /\ item.owner = to_pascal_case(owner)
    IN  SelectSeq(emitted, IsField)

\* The position of the property called name in the property table props.
PropIndex(props, name) == CHOOSE k \in 1..Len(props) : props[k].name = name

\* C22: for every object schema the emitted record has one field per declared
\* property: the required ones first, without a default, then the others, as
\* Optional with default None, each group in declaration order.
C22_RequiredFieldsFirst ==
    gpc = "done" =>
        \A s \in 1..Len(schemas) :
            schemas[s].type = "object" =>
                LET props == schemas[s].properties
                    req == schemas[s].required
                    fields == FieldsOf(schemas[s].name)
                IN  /\ Len(fields) = Len(props)
                    /\ \A k \in 1..Len(props) :
                          Cardinality({f \in 1..Len(fields) :
                                          fields[f].name = props[k].name}) = 1
                    /\ \A f \in 1..Len(fields) :
                          LET p == props[PropIndex(props, fields[f].name)]
                          IN  IF p.name \in req
                                THEN /\ fields[f].default = <<>>
                                     /\ fields[f].type = get_python_type(p.schema, schemas)
                                ELSE /\ fields[f].default = NNone
                                     /\ fields[f].type =
                                            OptionalOf(get_python_type(p.schema, schemas))
                    /\ \A f, g \in 1..Len(fields) :
                          f < g =>
                              /\ fields[g].name \in req => fields[f].name \in req
                              /\ (fields[f].name \in req <=> fields[g].name \in req)
                                    => PropIndex(props, fields[f].name)
                                          < PropIndex(props, fields[g].name)

\* A record has been written for a schema that declares an optional property
\* before a required one.
C22_Witness ==
    /\ gpc = "done"
    /\ \E s \in 1..Len(schemas) :
          /\ schemas[s].type = "object"
          /\ Len(schemas[s].properties) = 2
          /\ schemas[s].required = {schemas[s].properties[2].name}
          /\ Len(FieldsOf(schemas[s].name)) = 2
          /\ FieldsOf(schemas[s].name)[1].name = schemas[s].properties[2].name

\* The constants written for the enum class of the schema named owner, in order.
ConstantsOf(owner) ==
    LET IsConst(item) == item.kind = "const" /\ item.owner = to_pascal_case(owner)
    IN  SelectSeq(emitted, IsConst)

\* An enum value in upper case with '-', ' ' and '.' turned into '_'.
ConstantName(value) ==
    [i \in 1..Len(value) |->
        IF value[i] \in {"-", " ", "."} THEN "_" ELSE UpperOf(value[i])]

\* C23: for a string schema with a non-empty enum list the emitted enum has one
\* constant per literal value, in declared order, named by the literal in upper
\* case with '-', ' ' and '.' replaced by '_' and valued by the literal; the
\* values high, low give exactly HIGH and LOW.
C23_EnumConstantPerValue ==
    gpc = "done" =>
        \A s \in 1..Len(schemas) :
            (schemas[s].type = "string" /\ schemas[s].enum # <<>>) =>
                LET consts == ConstantsOf(schemas[s].name)
                    values == schemas[s].enum
                IN  /\ DefsOf("enum", to_pascal_case(schemas[s].name)) # {}
                    /\ Len(consts) = Len(values)
                    /\ \A k \in 1..Len(values) :
                          /\ consts[k].type = values[k]
                          /\ consts[k].name = ConstantName(values[k])
                    /\ values = <<VHigh, VLow>> =>
                          [k \in 1..Len(consts) |-> consts[k].name]
                              = <<<<"H", "I", "G", "H">>, <<"L", "O", "W">>>>

\* An enum has been written whose values hold a '-' and a '.'.
C23_Witness ==
    /\ gpc = "done"
    /\ schemas # <<>>
    /\ schemas[1].type = "string"
    /\ schemas[1].enum = <<VActiveLow, VVersion>>
    /\ Len(ConstantsOf(schemas[1].name)) = 2

\* The rank of an item's section in the emitted source.
SectionOf(item) ==
    CASE item.kind \in {"enum", "const"} -> 1
      [] item.kind \in {"record", "field"} -> 2
      [] item.kind = "client" -> 3
      [] item.kind \in {"send", "on"} -> 4

\* The names of the emitted classes of one kind, in source order.
ClassNames(kind) ==
    LET IsKind(item) == item.kind = kind
        items == SelectSeq(emitted, IsKind)
    IN  [i \in 1..Len(items) |-> items[i].name]

IsEnumSchema(schema) == schema.type = "string" /\ schema.enum # <<>>

IsObjectSchema(schema) == schema.type = "object"

\* The class names of the schemas in the sequence picked, in its order.
DeclaredNames(picked) ==
    [i \in 1..Len(picked) |-> to_pascal_case(picked[i].name)]

\* The emitted methods, in source order.
Methods == SelectSeq(emitted, IsMethod)

\* The number of (channel, message) declarations at or before message k of
\* channel c.
DeclarationRank(c, k) ==
    Cardinality({d \in {<<c2, k2>> : c2 \in 1..Len(channels), k2 \in 1..MaxMessages + 1} :
                    /\ d[2] <= Len(channels[d[1]])
                    /\ d[1] < c \/ (d[1] = c /\ d[2] <= k)})

\* C24: the emitted source holds the enums, then the records, then the client
\* class, then the methods; enums and records stand in schema-table order,
\* and the send/on pair of each message stands at the place of its message in
\* channel order and, within the channel, in message order.
C24_EmissionOrder ==
    gpc = "done" =>
        /\ \A i, j \in 1..Len(emitted) :
              i < j => SectionOf(emitted[i]) <= SectionOf(emitted[j])
        /\ ClassNames("enum") = DeclaredNames(SelectSeq(schemas, IsEnumSchema))
        /\ ClassNames("record") = DeclaredNames(SelectSeq(schemas, IsObjectSchema))
        /\ ClassNames("client") = <<client_class_name>>
        /\ \A c \in 1..Len(channels) :
              \A k \in 1..Len(channels[c]) :
                  LET r == DeclarationRank(c, k)
                  IN  /\ 2 * r <= Len(Methods)
                      /\ Methods[2 * r - 1].kind = "send"
                      /\ Methods[2 * r - 1].type = channels[c][k]
                      /\ Methods[2 * r].kind = "on"
                      /\ Methods[2 * r].type = channels[c][k]
        /\ \A r \in 1..Len(Methods) :
              \E c \in 1..Len(channels) :
                  \E k \in 1..Len(channels[c]) : DeclarationRank(c, k) = (r + 1) \div 2

\* A source has been written for a table that declares an object schema
\* before an enum schema, two of each, and for two channels.
C24_Witness ==
    /\ gpc = "done"
    /\ Len(ClassNames("enum")) = 2
    /\ Len(ClassNames("record")) = 2
    /\ IsObjectSchema(schemas[1])
    /\ IsEnumSchema(schemas[Len(schemas)])
    /\ Len(channels) = 2
    /\ Len(Methods) = 6

\* The generator: names a field annotation refers to

BuiltinTypes == {TAny, TStr, TInt, TFloat, TBool, TDict}

\* The text t is wrapper[inner], wrapper being List or Optional written
\* around the empty text.
IsWrapped(t, around_empty) ==
    LET n == Len(around_empty) - 1
    IN  /\ Len(t) > n
        /\ SubSeq(t, 1, n) = SubSeq(around_empty, 1, n)
        /\ t[Len(t)] = around_empty[n + 1]

Inner(t, around_empty) == SubSeq(t, Len(around_empty), Len(t) - 1)

\* The name inside the List[...] and Optional[...] wrappers of an annotation.
RECURSIVE BaseType(_)
BaseType(t) ==
    IF t \in BuiltinTypes THEN t
    ELSE IF IsWrapped(t, OptionalOf(<<>>)) THEN BaseType(Inner(t, OptionalOf(<<>>)))
    ELSE IF IsWrapped(t, ListOf(<<>>)) THEN BaseType(Inner(t, ListOf(<<>>)))
    ELSE t

\* The position in the source of the class statement of the record owner
\* whose body holds the field at position f.
RecordOf(f) ==
    CHOOSE r \in 1..f :
        /\ emitted[r].kind = "record"
        /\ \A q \in r + 1..f : emitted[q].kind = "field"

\* The field at position f is annotated with a built-in type or with a class
\* whose definition stands before the field's record.
AnnotationDefined(f) ==
    \/ BaseType(emitted[f].type) \in BuiltinTypes
    \/ \E d \in 1..RecordOf(f) - 1 :
          /\ emitted[d].kind \in {"enum", "record"}
          /\ emitted[d].name = BaseType(emitted[f].type)

\* C30: every emitted record field is annotated with a built-in type or with
\* a class defined earlier in the source than the field's record, so that the
\* annotations, which Python evaluates when the class statement runs, are all
\* bound when the module is imported.
C30_FieldTypesDefined ==
    \A f \in 1..Len(emitted) :
        emitted[f].kind = "field" => AnnotationDefined(f)

\* Sending raw text

\* C27: send_raw_message never raises, returns True exactly when the write
\* to the transport completed, and what it wrote is the text it was given.
C27_RawSendsGivenText ==
    sendKind = "raw" =>
        /\ sendRaised = "none"
        /\ callerPc = "idle" => sendResult \in {"true", "false"}
        /\ sendResult = "true" <=> wire # NoWire
        /\ wire # NoWire => wire.text = sendArg.text

\* A send_raw_message has returned True after writing its text.
C27_Witness ==
    /\ callerPc = "idle" /\ sendKind = "raw"
    /\ sendResult = "true" /\ wire # NoWire /\ wire.text = sendArg.text

\* One client, one transport

\* The transports whose background loop is delivering frames.
LiveTransports == {t \in Transports : IsOpen(t)}

\* C28: at no time are two transports of the client open at once.
C28_AtMostOneLiveTransport == Cardinality(LiveTransports) <= 1

\* C29: when connected is True (what is_connected returns) the transport held
\* in self.ws is open, or has just been lost and its close callback is still
\* to be delivered.
C29_ConnectedMeansCurrentOpen ==
    connected => ws # 0 /\ pc[ws] \in {"open", "closing"}

(***************************************************************************)
(* The generator's command line: main and generate_client                  *)
(***************************************************************************)

\* The files generate_client writes, in the order of its dict (lines 91-96).
Files == <<"client.py", "pyproject.toml", "README.md", ".flake8">>

\* The command lines: no argument, --version, --help, an unknown option, or
\* a specification path with or without -o.
ArgvKinds == {"empty", "version", "help", "bad_option", "spec"}

\* What the path names: nothing; a file that is removed between main's test
\* and the open; a directory; text that is not JSON; JSON that is not an
\* object; a specification of AsyncAPI 3.x or of another version.
SpecFiles == {"missing", "vanishes", "directory", "not_json", "not_object",
              "v3", "v2"}

\* What mkdir and the four generate_* functions of lines 78-88 do.
Emissions == {"ok", "raises", "interrupted"}

\* The runs: stdout can encode the status symbols of the messages or not,
\* and the write of the k-th file fails (0: none does).
CliRuns ==
    {[argv |-> a, spec_file |-> f, stdout_encodes |-> s, emission |-> e,
      disk_fails_at |-> k, pc |-> "main", written |-> <<>>, exc |-> "none",
      exit |-> <<>>] :
        a \in ArgvKinds, f \in SpecFiles, s \in BOOLEAN, e \in Emissions,
        k \in 0..Len(Files)}

\* The process ends with the given code.
Exited(code) == [cli EXCEPT !.pc = "exited", !.exit = <<code>>]

\* An exception leaves generate_client.
Raised(exc) == [cli EXCEPT !.pc = "except", !.exc = exc]

\* print of a message that holds a status symbol: it raises
\* UnicodeEncodeError when stdout cannot encode it.
PrintRaises == ~cli.stdout_encodes

\* The exceptions of the run that derive from Exception.
CliExceptionSubclasses == {"OSError", "AttributeError", "UnicodeEncodeError",
                           "Exception"}

\* The run starts.
CliInit ==
    /\ ClientFresh
    /\ SendIdle
    /\ NameIdle
    /\ GenIdle
    /\ ErrorIdle
    /\ AdapterIdle
    /\ cli \in CliRuns

CliFrame ==
    UNCHANGED <<clientVars, message_handlers, lifeVars, dispatchVars, sendVars,
                nameVars, genVars, errorVars, adapterVars>>

\* main, lines 810-814: the help of an empty command line, and parse_args,
\* which ends the process itself for --version, --help and a usage error.
MainParse ==
    /\ cli.pc = "main"
    /\ cli' = CASE cli.argv = "empty" -> Exited(1)
                [] cli.argv \in {"version", "help"} -> Exited(0)
                [] cli.argv = "bad_option" -> Exited(2)
                [] OTHER -> [cli EXCEPT !.pc = "exists"]
    /\ CliFrame

\* main, lines 816-818: the path does not exist. The print is outside the
\* try block: when it raises, the process ends with the traceback.
MainExists ==
    /\ cli.pc = "exists"
    /\ cli' = IF cli.spec_file = "missing" THEN Exited(1)
              ELSE [cli EXCEPT !.pc = "load"]
    /\ CliFrame

\* generate_client, lines 39-47: open and json.load, and the two handlers
\* that print and call sys.exit(1).
Load ==
    /\ cli.pc = "load"
    /\ cli' = CASE cli.spec_file \in {"vanishes", "not_json"} ->
                     IF PrintRaises THEN Raised("UnicodeEncodeError")
                     ELSE Raised("SystemExit")
                [] cli.spec_file = "directory" -> Raised("OSError")
                [] OTHER -> [cli EXCEPT !.pc = "validate"]
    /\ CliFrame

\* generate_client, lines 50-53: spec.get, and the warning for a version
\* other than 3.x.
Validate ==
    /\ cli.pc = "validate"
    /\ cli' = CASE cli.spec_file = "not_object" -> Raised("AttributeError")
                [] cli.spec_file = "v2" /\ PrintRaises -> Raised("UnicodeEncodeError")
                [] OTHER -> [cli EXCEPT !.pc = "emit"]
    /\ CliFrame

\* generate_client, lines 56-88: the tables are read, the output directory
\* made and the four texts generated.
Emit ==
    /\ cli.pc = "emit"
    /\ cli' = CASE cli.emission = "raises" -> Raised("Exception")
                [] cli.emission = "interrupted" -> Raised("KeyboardInterrupt")
                [] OTHER -> [cli EXCEPT !.pc = "write"]
    /\ CliFrame

\* generate_client, lines 98-101: one iteration of the loop that writes the
\* files, or its end.
WriteFile ==
    /\ cli.pc = "write"
    /\ cli' = IF Len(cli.written) = Len(Files)
                THEN [cli EXCEPT !.pc = "report"]
              ELSE IF cli.disk_fails_at = Len(cli.written) + 1
                THEN Raised("OSError")
              ELSE [cli EXCEPT !.written = Append(@, Files[Len(@) + 1])]
    /\ CliFrame

\* generate_client, lines 104-114, and main's return 0 (line 822).
Report ==
    /\ cli.pc = "report"
    /\ cli' = IF PrintRaises THEN Raised("UnicodeEncodeError") ELSE Exited(0)
    /\ CliFrame

\* main, lines 823-831: SystemExit passes both handlers and ends the process
\* with its code; the handlers print and return 1, and when their print
\* raises the process ends with the traceback.
MainExcept ==
    /\ cli.pc = "except"
    /\ cli' = CASE cli.exc = "SystemExit" -> Exited(1)
                [] cli.exc = "KeyboardInterrupt" -> Exited(1)
                [] cli.exc \in CliExceptionSubclasses -> Exited(1)
    /\ CliFrame

CliNext ==
    \/ MainParse
    \/ MainExists
    \/ Load
    \/ Validate
    \/ Emit
    \/ WriteFile
    \/ Report
    \/ MainExcept

CliSpec == CliInit /\ [][CliNext]_vars

\* generate_client ran to the end of its write loop.
GenerationCompleted == cli.written = Files

\* The fatal errors: the specification file is missing or cannot be parsed,
\* or an exception left the emission.
FatalError ==
    \/ cli.spec_file \in {"missing", "vanishes", "directory", "not_json", "not_object"}
    \/ cli.emission # "ok"
    \/ cli.disk_fails_at # 0

\* C25: a run that was given a specification path ends with exit code 0
\* exactly when generation completed and the four files were written, and
\* with 1 when it met a fatal error.
C25_ExitCodeZeroIffGenerated ==
    (cli.pc = "exited" /\ cli.argv = "spec") =>
        /\ cli.exit = <<0>> <=> GenerationCompleted
        /\ FatalError => cli.exit = <<1>>

(***************************************************************************)
(* Regenerating from the same tables                                       *)
(***************************************************************************)

\* The string-hash seeds two interpreter processes may draw (PYTHONHASHSEED):
\* they decide the iteration order of the set of line 181.
HashSeeds == {"seed_a", "seed_b"}

\* The tables regenerated from: the enum schema and one object schema.
RegenInputs ==
    {[schemas |-> <<GpioStatusSchema, o>>, channels |-> CrossChannels] :
        o \in ObjectSchemas}

RegenInit ==
    /\ ClientFresh
    /\ SendIdle
    /\ ErrorIdle
    /\ CliIdle
    /\ AdapterIdle
    /\ NameIdle
    /\ \E sp \in RegenInputs :
          schemas = sp.schemas /\ channels = sp.channels
    /\ gpc = "enums"
    /\ gi = 0
    /\ emitted = <<>>
    /\ called = NoCall
    /\ hash_seed \in HashSeeds
    /\ previous = <<>>
    /\ registered = <<>>
    /\ delivered = <<>>

\* generate_client_code is called again with the same two tables, in a new
\* interpreter process.
GenAgain ==
    /\ gpc = "done"
    /\ previous = <<>>
    /\ previous' = <<[hash_seed |-> hash_seed, code |-> emitted]>>
    /\ hash_seed' \in HashSeeds
    /\ gpc' = "enums"
    /\ gi' = 0
    /\ emitted' = <<>>
    /\ UNCHANGED <<clientVars, message_handlers, lifeVars, dispatchVars, errorVars,
                   cliVars, adapterVars, sendVars, nameVars, schemas, channels, called,
                   registered, delivered>>

RegenNext ==
    \/ GenEnum
    \/ GenRecord
    \/ GenClient
    \/ GenMethods
    \/ GenAgain

RegenSpec == RegenInit /\ [][RegenNext]_vars

C32_NoTypeNoHandler ==
    (data.kind = "object" /\ ~data.has_type) => invoked = <<>>

(***************************************************************************)
(* The adapter: ModernAsyncAPILibrary over the generated client            *)
(***************************************************************************)

\* Longest buffer a wait keyword is called on.
MaxBuffer == 3

\* The on_ methods of the generated client, by the name each registers
\* under (dir(self.client), lines 81-82).
OnMethodNames == {"GpioMessage", "GpioAck"}

\* The client's registry after _setup_message_handlers (lines 80-90): every
\* on_ method has been called with message_collector.
CollectorRegistry == [n \in OnMethodNames |-> <<"message_collector">>]

\* message_collector is declared "async def" (line 68): calling it, as line
\* 335 of the client does, builds a coroutine object and runs none of its
\* body; the append of line 69 runs only when that object is awaited.
IsCoroutineFunction(h) == h = "message_collector"

\* The adapter after initialize_gpio_client and a successful connect: the
\* client's first transport is open.
AdapterInit ==
    /\ ws = 1
    /\ connected = TRUE
    /\ should_reconnect = FALSE
    /\ message_handlers = CollectorRegistry
    /\ callerPc = "idle"
    /\ connectResult = "true"
    /\ pc = [t \in Transports |-> IF t = 1 THEN "open" ELSE "unused"]
    /\ parent = [t \in Transports |-> 0]
    /\ explicit_disconnect = FALSE
    /\ flagAtClose = [t \in Transports |-> "unread"]
    /\ attempts = [t \in Transports |-> 0]
    /\ sleeps = [t \in Transports |-> 0]
    /\ raised = [t \in Transports |-> "none"]
    /\ opened = [t \in Transports |-> t = 1]
    /\ dpc = "loop"
    /\ lastFrame = ""
    /\ data = NoData
    /\ message_type = NoType
    /\ idx = 0
    /\ invoked = <<>>
    /\ escaped = "none"
    /\ atStart = <<>>
    /\ RestInit

\* The message types a test waits for.
WaitTypes == {"GpioMessage", "GpioAck", "Telemetry"}

\* msg.get("type") == message_type, lines 234 and 277.
HasType(msg, wanted) ==
    msg.kind = "object" /\ msg.has_type /\ msg.type = Str(wanted)

\* The index at which the scan of lines 233-237 stops: 0 when it finds none.
LastMatch(buffer, wanted) ==
    LET hits == {i \in 1..Len(buffer) : HasType(buffer[i], wanted)}
    IN  IF hits = {} THEN 0 ELSE CHOOSE i \in hits : \A j \in hits : j <= i

FirstMatch(buffer, wanted) ==
    LET hits == {i \in 1..Len(buffer) : HasType(buffer[i], wanted)}
    IN  IF hits = {} THEN 0 ELSE CHOOSE i \in hits : \A j \in hits : i <= j

\* list.pop(i), line 235 (i counted from 1 here).
Pop(buffer, i) == SubSeq(buffer, 1, i - 1) \o SubSeq(buffer, i + 1, Len(buffer))

AdapterFrame ==
    UNCHANGED <<clientVars, message_handlers, lifeVars, dispatchVars, sendVars,
                nameVars, genVars, errorVars, cliVars>>

\* wait_for_websocket_message(message_type, timeout), lines 221-224: the
\* coroutine of _wait_for_message_async is started under asyncio.wait_for.
WaitBegin(wanted) ==
    /\ wpc = "idle"
    /\ wpc' = "scan"
    /\ waitType' = wanted
    /\ waitResult' = NoResult
    /\ atCall' = received_messages
    /\ UNCHANGED received_messages
    /\ AdapterFrame

\* _wait_for_message_async, lines 231-240: one pass of the while loop up to
\* its return or its await. Nothing else runs on the event loop between the
\* match and the pop.
WaitScan ==
    LET i == FirstMatch(received_messages, waitType)
    IN  /\ wpc = "scan"
        /\ IF i # 0
             THEN /\ received_messages' = Pop(received_messages, i)
                  /\ waitResult' = [kind |-> "returned", message |-> received_messages[i]]
                  /\ wpc' = "idle"
             ELSE /\ wpc' = "sleep"
                  /\ UNCHANGED <<received_messages, waitResult>>
        /\ UNCHANGED <<waitType, atCall>>
        /\ AdapterFrame

\* asyncio.sleep(0.1) of line 240 is over before the timeout.
WaitWake ==
    /\ wpc = "sleep"
    /\ wpc' = "scan"
    /\ UNCHANGED <<received_messages, waitType, waitResult, atCall>>
    /\ AdapterFrame

\* The timeout expires during the sleep: wait_for cancels the coroutine and
\* raises TimeoutError, which lines 225-228 turn into AssertionError.
WaitTimeout ==
    /\ wpc = "sleep"
    /\ wpc' = "idle"
    /\ waitResult' = [kind |-> "AssertionError", message |-> NoData]
    /\ UNCHANGED <<received_messages, waitType, atCall>>
    /\ AdapterFrame

\* One turn of the client's for loop (lines 333-337) on the adapter's
\* client: handler(data) is called, and the body of a plain function runs
\* (line 69 appends), while a coroutine function only returns its coroutine.
CollectorStep ==
    /\ dpc = "iter"
    /\ IF idx < Len(Iterated)
         THEN LET h == HandlerAt(Iterated, idx)
              IN  /\ invoked' = Append(invoked,
                         [handler |-> h, arg |-> HandlerArg(data), raised |-> FALSE])
                  /\ idx' = idx + 1
                  /\ received_messages' =
                        IF IsCoroutineFunction(h) THEN received_messages
                        ELSE Append(received_messages, HandlerArg(data))
                  /\ UNCHANGED dpc
         ELSE /\ dpc' = "loop"
              /\ UNCHANGED <<idx, invoked, received_messages>>
    /\ UNCHANGED <<clientVars, message_handlers, lifeVars, lastFrame, data,
                   message_type, atStart, escaped, sendVars, nameVars, genVars,
                   errorVars, cliVars, wpc, waitType, waitResult, atCall>>

AdapterNext ==
    \/ \E f \in Frames : OnMessage(f)
    \/ CollectorStep
    \/ \E t \in WaitTypes : WaitBegin(t)
    \/ WaitScan
    \/ WaitWake
    \/ WaitTimeout

AdapterSpec == AdapterInit /\ [][AdapterNext]_vars

\* C33: a frame the client has handed to message_collector is in the buffer,
\* unless a wait has returned it.
C33_DispatchedFramesBuffered ==
    \A k \in 1..Len(invoked) :
        invoked[k].handler = "message_collector" =>
            \/ \E i \in 1..Len(received_messages) : received_messages[i] = invoked[k].arg
            \/ waitResult = [kind |-> "returned", message |-> invoked[k].arg]

(***************************************************************************)
(* The wait keyword on a buffer                                            *)
(***************************************************************************)

\* What message_collector is handed, and appends when it is awaited: decoded
\* frames that are objects.
Messages ==
    {json_loads(f).value : f \in {FGpioHigh, FAckLow, FTelemetry, FNoType}}

RECURSIVE SeqsUpTo(_, _)
SeqsUpTo(S, n) ==
    IF n = 0 THEN {<<>>}
    ELSE LET shorter == SeqsUpTo(S, n - 1)
         IN  shorter \cup {Append(s, x) : s \in shorter, x \in S}

Buffers == SeqsUpTo(Messages, MaxBuffer)

\* The adapter with some messages in its buffer, and no wait in progress.
WaitInit ==
    /\ ClientFresh
    /\ SendIdle
    /\ NameIdle
    /\ GenIdle
    /\ ErrorIdle
    /\ CliIdle
    /\ received_messages \in Buffers
    /\ wpc = "idle"
    /\ waitType = ""
    /\ waitResult = NoResult
    /\ atCall = <<>>

WaitNext ==
    \/ \E t \in WaitTypes : WaitBegin(t)
    \/ WaitScan
    \/ WaitWake
    \/ WaitTimeout

WaitSpec == WaitInit /\ [][WaitNext]_vars

\* The positions of the messages of type wanted in buffer.
Matches(buffer, wanted) ==
    {i \in 1..Len(buffer) :
        buffer[i].kind = "object" /\ buffer[i].has_type
            /\ buffer[i].type = [kind |-> "str", v |-> wanted]}

\* C34: a wait that returned has returned the oldest message of the wanted
\* type that was in the buffer and has removed that message alone, the others
\* keeping their order; a wait that raised AssertionError found no message
\* of the wanted type and has left the buffer as it was.
C34_WaitTakesOldestMatch ==
    /\ waitResult.kind = "returned" =>
          \E i \in Matches(atCall, waitType) :
              /\ \A j \in Matches(atCall, waitType) : i <= j
              /\ waitResult.message = atCall[i]
              /\ Len(received_messages) = Len(atCall) - 1
              /\ \A k \in 1..Len(received_messages) :
                    received_messages[k] = atCall[IF k < i THEN k ELSE k + 1]
    /\ waitResult.kind = "AssertionError" =>
          /\ Matches(atCall, waitType) = {}
          /\ received_messages = atCall
    /\ (wpc = "sleep" /\ waitResult.kind = "none") => Matches(atCall, waitType) = {}

\* A wait has returned the first of two buffered messages of its type, which
\* stood behind a message of another type.
C34_Witness ==
    /\ waitResult.kind = "returned"
    /\ Cardinality(Matches(atCall, waitType)) = 2
    /\ 1 \notin Matches(atCall, waitType)
    /\ Len(received_messages) = 2

(***************************************************************************)
(* Round trip: an emitted send_ method, the wire, the emitted dispatch     *)
(***************************************************************************)

\* Calls of on_ methods made before the frame is sent.
MaxOnCalls == 2

\* The specifications generated from: the example's, and one with two
\* channels.
RoundTripInputs ==
    {[schemas |-> ExampleSchemas, channels |-> c] :
        c \in {ExampleChannels, CrossChannels}}

RoundTripInit ==
    /\ ClientFresh
    /\ SendIdle
    /\ ErrorIdle
    /\ CliIdle
    /\ AdapterIdle
    /\ NameIdle
    /\ \E sp \in RoundTripInputs :
          schemas = sp.schemas /\ channels = sp.channels
    /\ gpc = "enums"
    /\ gi = 0
    /\ emitted = <<>>
    /\ called = NoCall
    /\ hash_seed = "seed_a"
    /\ previous = <<>>
    /\ registered = <<>>
    /\ delivered = <<>>

\* A JSON string body as json.dumps writes it: '"' and '\' escaped.
RECURSIVE JsonEscape(_)
JsonEscape(s) ==
    IF s = <<>> THEN <<>>
    ELSE (IF Head(s) \in {"\"", "\\"} THEN <<"\\", Head(s)>> ELSE <<Head(s)>>)
            \o JsonEscape(Tail(s))

\* The body of the JSON string that starts at the head of s, as json.loads
\* reads it: up to the closing quote, escapes undone.
RECURSIVE JsonUnescape(_)
JsonUnescape(s) ==
    IF s = <<>> \/ Head(s) = "\"" THEN <<>>
    ELSE IF Head(s) = "\\" /\ Len(s) > 1
      THEN <<s[2]>> \o JsonUnescape(SubSeq(s, 3, Len(s)))
    ELSE <<Head(s)>> \o JsonUnescape(Tail(s))

EnvelopeHead == <<"{", "\"", "t", "y", "p", "e", "\"", ":", " ", "\"">>

EnvelopeTail == <<"\"", ",", " ", "\"", "p", "a", "y", "l", "o", "a", "d", "\"", ":", " ", "{", "}", "}">>

\* json.dumps(message_data, default=str), line 388, of the envelope that
\* lines 432-435 build around an empty payload.
EnvelopeText(type) == EnvelopeHead \o JsonEscape(type) \o EnvelopeTail

\* json.loads(message) and data.get("type", "unknown"), lines 329-330, on
\* such a text.
TypeOfText(text) ==
    JsonUnescape(SubSeq(text, Len(EnvelopeHead) + 1, Len(text)))

\* The caller calls the on_ method the generator named after message
\* (lines 438-450): the class's binding of that name registers the handler
\* under the name written in its body.
CallOn(message) ==
    LET name == NOnPrefix \o MethodName(message)
    IN  /\ gpc = "done"
        /\ called = NoCall
        /\ Len(registered) < MaxOnCalls
        /\ \E k \in 1..Len(MessagePairs(channels)) : MessagePairs(channels)[k] = message
        /\ registered' = Append(registered,
                                [via |-> message, under |-> Bound("on", name).type])
        /\ UNCHANGED <<clientVars, message_handlers, lifeVars, dispatchVars, errorVars,
                       cliVars, adapterVars, sendVars, nameVars, schemas, channels,
                       gpc, gi, emitted, called, hash_seed, previous, delivered>>

\* The frame the send_ call wrote comes back to _on_message of a client of
\* the same class (lines 329-335): the handlers registered under its type
\* are called, in registration order.
DeliverSent ==
    LET message_type_ == TypeOfText(EnvelopeText(called.type))
        IsUnder(r) == r.under = message_type_
    IN  /\ called # NoCall
        /\ called.sent = "true"
        /\ delivered = <<>>
        /\ delivered' = <<[type |-> message_type_, to |-> SelectSeq(registered, IsUnder)]>>
        /\ UNCHANGED <<clientVars, message_handlers, lifeVars, dispatchVars, errorVars,
                       cliVars, adapterVars, sendVars, nameVars, schemas, channels,
                       gpc, gi, emitted, called, hash_seed, previous, registered>>

RoundTripNext ==
    \/ GenEnum
    \/ GenRecord
    \/ GenClient
    \/ GenMethods
    \/ \E msg \in MessageNames : CallOn(msg)
    \/ \E msg \in MessageNames : \E r \in {"true", "false"} : CallSend(msg, r)
    \/ DeliverSent

RoundTripSpec == RoundTripInit /\ [][RoundTripNext]_vars

\* C31: the frame written by send_<m> is dispatched to the handlers that were
\* registered through on_<m>, in order, and to no handler registered through
\* the on_ method of another message.
C31_RoundTrip ==
    delivered # <<>> =>
        LET IsVia(r) == r.via = called.of
        IN  delivered[1].to = SelectSeq(registered, IsVia)

====
